---- MODULE Spec2Model ----
(***************************************************************************)
(* The idiom matcher of englishidioms/L_algorithm.py: the coarse filter    *)
(* get_potential_matches, the fine matcher look_closer, the query function *)
(* find_idioms, and the pattern generator get_patterns of I_getpatterns.py *)
(* that precomputes the patterns the fine matcher validates against.       *)
(*                                                                         *)
(* A Python str is a sequence of one-character strings; offsets are the    *)
(* 0-based offsets of Python, spans are the half-open (start, end) pairs   *)
(* of re.Match.span().                                                     *)
(***************************************************************************)
EXTENDS Integers, Sequences, FiniteSets, TLC

VARIABLES
  sentence,           \* the sentence of the query
  pc,                 \* how far the calls have got
  potential_matches,  \* what get_potential_matches returned
  lc,                 \* what look_closer returned
  data_dictionary,    \* data["dictionary"], loaded when the module is imported
  limit,              \* the arguments of find_idioms
  flags,
  kept,               \* the (entry, span) pairs find_idioms keeps
  idioms,             \* what find_idioms returned
  first_idioms,       \* what the first of two equal calls returned
  queries,            \* the functions called between the two
  raised,             \* a call ended with an exception
  given_alt,          \* the arguments of get_patterns
  given_runs,
  patterns_list,      \* what get_patterns returned
  phrases_json,       \* the entries in the file phrases.json
  index,              \* the position of the loop of FF_manualoverride.py
  examples,           \* the list in the file examples.pickle
  matcher_parameters, \* how many parameters the imported get_potential_matches has
  today,              \* the date, in days
  validation_data,    \* the files validation_data_<date>.pickle, by date
  progress_pickle,    \* the file validation_progress.pickle
  file_name,          \* the locals of a run of M_validate.py
  run_output,         \* its list output
  validation_progress,
  processed,          \* the part the run has processed, if any
  interruptions,      \* how many runs were interrupted
  typically,          \* the runs of the entry's paragraph in clean-output.docx
  entry_before,       \* the alt and runs of the entry before the last build step
  asterisk,           \* what asterisk_verbs returned for the entry
  built               \* the entries the build steps made of the entry so far

\* the state of a query of the matcher
matcher_vars == <<sentence, pc, potential_matches, lc>>

\* the state of find_idioms
facade_vars == <<limit, flags, kept, idioms, first_idioms, queries, raised>>

\* the state of a call of get_patterns
pattern_vars == <<given_alt, given_runs, patterns_list>>

\* the state of the scripts that build and validate the dictionary
override_vars == <<phrases_json, index>>

\* the files M_validate.py reads and writes, and the date
validation_files == <<examples, matcher_parameters, today, validation_data, progress_pickle>>

\* a run of M_validate.py
validation_run == <<file_name, run_output, validation_progress, processed, interruptions>>

\* the build of one entry by F_tidyup.py, G_asterisk.py and J_getwordforms.py
build_vars == <<typically, entry_before, asterisk, built>>

tool_vars == <<override_vars, validation_files, validation_run, build_vars>>

vars == <<matcher_vars, data_dictionary, facade_vars, pattern_vars, tool_vars>>

\* ------------------------------------------------------------------------
\* Bounds of the model
\* ------------------------------------------------------------------------

\* longest enumerated sentence, in words
MaxLen == 4

\* most filler words placed between the two constants of a gap sentence
MaxGap == 4

\* ------------------------------------------------------------------------
\* The words of the model, spelled out character by character
\* ------------------------------------------------------------------------

W ==
  [
    bail |-> <<"b", "a", "i", "l">>,
    bailed |-> <<"b", "a", "i", "l", "e", "d">>,
    bails |-> <<"b", "a", "i", "l", "s">>,
    out |-> <<"o", "u", "t">>,
    of |-> <<"o", "f">>,
    jail |-> <<"j", "a", "i", "l">>,
    jails |-> <<"j", "a", "i", "l", "s">>,
    jailed |-> <<"j", "a", "i", "l", "e", "d">>,
    someone |-> <<"s", "o", "m", "e", "o", "n", "e">>,
    be |-> <<"b", "e">>,
    is |-> <<"i", "s">>,
    are |-> <<"a", "r", "e">>,
    was |-> <<"w", "a", "s">>,
    were |-> <<"w", "e", "r", "e">>,
    become |-> <<"b", "e", "c", "o", "m", "e">>,
    became |-> <<"b", "e", "c", "a", "m", "e">>,
    grow |-> <<"g", "r", "o", "w">>,
    grew |-> <<"g", "r", "e", "w">>,
    accustomed |-> <<"a", "c", "c", "u", "s", "t", "o", "m", "e", "d">>,
    accustom |-> <<"a", "c", "c", "u", "s", "t", "o", "m">>,
    to |-> <<"t", "o">>,
    want |-> <<"w", "a", "n", "t">>,
    wants |-> <<"w", "a", "n", "t", "s">>,
    wanted |-> <<"w", "a", "n", "t", "e", "d">>,
    for |-> <<"f", "o", "r">>,
    nothing |-> <<"n", "o", "t", "h", "i", "n", "g">>,
    know |-> <<"k", "n", "o", "w">>,
    knows |-> <<"k", "n", "o", "w", "s">>,
    knew |-> <<"k", "n", "e", "w">>,
    and |-> <<"a", "n", "d">>,
    Jack |-> <<"J", "a", "c", "k">>,
    jack |-> <<"j", "a", "c", "k">>,
    jacked |-> <<"j", "a", "c", "k", "e", "d">>,
    Jackson |-> <<"J", "a", "c", "k", "s", "o", "n">>,
    him |-> <<"h", "i", "m">>,
    I |-> <<"I">>,
    need |-> <<"n", "e", "e", "d">>,
    some |-> <<"s", "o", "m", "e">>,
    cash |-> <<"c", "a", "s", "h">>,
    a |-> <<"a">>,
    The |-> <<"T", "h", "e">>,
    children |-> <<"c", "h", "i", "l", "d", "r", "e", "n">>,
    eating |-> <<"e", "a", "t", "i", "n", "g">>,
    eat |-> <<"e", "a", "t">>,
    late |-> <<"l", "a", "t", "e">>,
    in |-> <<"i", "n">>,
    the |-> <<"t", "h", "e">>,
    get |-> <<"g", "e", "t">>,
    free |-> <<"f", "r", "e", "e">>,
    hand |-> <<"h", "a", "n", "d">>,
    with |-> <<"w", "i", "t", "h">>,
    one |-> <<"o", "n", "e">>,
    ones |-> <<"o", "n", "e", "s">>,
    only |-> <<"o", "n", "l", "y">>,
    old |-> <<"o", "l", "d">>,
    woman |-> <<"w", "o", "m", "a", "n">>,
    women |-> <<"w", "o", "m", "e", "n">>,
    middle |-> <<"m", "i", "d", "d", "l", "e">>,
    drive |-> <<"d", "r", "i", "v", "e">>,
    put |-> <<"p", "u", "t">>,
    friend_bang |-> <<"f", "r", "i", "e", "n", "d", "!">>,
    evening_dot |-> <<"e", "v", "e", "n", "i", "n", "g", ".">>,
    one_s |-> <<"o", "n", "e", "'", "s">>,
    women_s |-> <<"w", "o", "m", "e", "n", "'", "s">>,
    star |-> <<"*">>,
    drive_into |-> <<"d", "r", "i", "v", "e", " ", "[", "i", "n", "t", "o", "]">>,
    with_star |-> <<"w", "i", "t", "h", "*">>,
    one_paren |-> <<"(", "1", ")">>,
    to_dot |-> <<"t", "o", ".">>,
    typically |-> <<"(", "*", "T", "y", "p", "i", "c", "a", "l", "l", "y", ":">>,
    typ_mark |-> <<"*", "T", "y", "p", "i", "c", "a", "l", "l", "y", ":">>,
    also_mark |-> <<"*", "A", "l", "s", "o", ":">>,
    into_mark |-> <<"[", "i", "n", "t", "o", "]">>,
    in_into |-> <<"i", "n", "t", "o">>,
    tilde |-> <<" ", "~", ";", " ">>,
    tilde_close |-> <<" ", "~", ".", ")", " ", "_", " ">>
  ]

Max(a, b) == IF a >= b THEN a ELSE b

Min(a, b) == IF a <= b THEN a ELSE b

RECURSIVE SeqMax(_)
\* max() of a non-empty list of numbers
SeqMax(s) == IF Len(s) = 1 THEN s[1] ELSE Max(s[1], SeqMax(Tail(s)))

RECURSIVE SeqSum(_)
\* sum() of a list of numbers
SeqSum(s) == IF s = <<>> THEN 0 ELSE s[1] + SeqSum(Tail(s))

\* x in list
In(x, list) == \E k \in 1..Len(list) : list[k] = x

\* ------------------------------------------------------------------------
\* str operations
\* ------------------------------------------------------------------------

RECURSIVE join(_)
\* " ".join(words)
join(words) ==
  IF words = <<>> THEN <<>>
  ELSE IF Len(words) = 1 THEN words[1]
  ELSE words[1] \o <<" ">> \o join(Tail(words))

RECURSIVE split_from(_, _, _, _)
split_from(text, i, cur, acc) ==
  IF i > Len(text)
  THEN IF cur = <<>> THEN acc ELSE Append(acc, cur)
  ELSE IF text[i] = " "
       THEN split_from(text, i + 1, <<>>, IF cur = <<>> THEN acc ELSE Append(acc, cur))
       ELSE split_from(text, i + 1, Append(cur, text[i]), acc)

\* text.split(): the maximal runs of non-whitespace characters
split(text) == split_from(text, 1, <<>>, <<>>)

\* text[a:b] for 0 <= a, 0 <= b
slice(text, a, b) == SubSeq(text, a + 1, Min(b, Len(text)))

\* sub in text
contains(sub, text) ==
  \E p \in 0..(Len(text) - Len(sub)) : SubSeq(text, p + 1, p + Len(sub)) = sub

\* ------------------------------------------------------------------------
\* re: the pattern rf"\b({'|'.join(forms)})\b" compiled with re.IGNORECASE
\* ------------------------------------------------------------------------

\* the characters of the model that are not \w
NonWord == {" ", "!", ".", ",", "'", "-"}

IsWordChar(c) == c \notin NonWord

\* case folding of re.IGNORECASE, for the capitals the model uses
Lower(c) ==
  CASE c = "J" -> "j"
    [] c = "T" -> "t"
    [] c = "I" -> "i"
    [] OTHER -> c

\* \b at offset p: exactly one of the characters around p is a word character
boundary(text, p) ==
  LET before == p >= 1 /\ IsWordChar(text[p])
      after == p < Len(text) /\ IsWordChar(text[p + 1])
  IN before # after

eq_ignorecase(a, b) ==
  /\ Len(a) = Len(b)
  /\ \A k \in 1..Len(a) : Lower(a[k]) = Lower(b[k])

\* the alternative f matches at offset p and is followed by \b
form_matches_at(f, text, p) ==
  /\ p + Len(f) <= Len(text)
  /\ eq_ignorecase(SubSeq(text, p + 1, p + Len(f)), f)
  /\ boundary(text, p + Len(f))

\* '|'.join([]) is the empty pattern, whose only alternative is the empty string
alternatives(forms) == IF forms = <<>> THEN << <<>> >> ELSE forms

RECURSIVE first_alternative(_, _, _)
\* end offset of the first alternative, in list order, that matches at p and
\* is followed by \b, or -1
first_alternative(alts, text, p) ==
  IF alts = <<>> THEN -1
  ELSE IF form_matches_at(alts[1], text, p) THEN p + Len(alts[1])
  ELSE first_alternative(Tail(alts), text, p)

\* end offset of the match that starts at p, or -1
match_end(forms, text, p) ==
  IF boundary(text, p) THEN first_alternative(alternatives(forms), text, p) ELSE -1

RECURSIVE scan(_, _, _, _), scan_on(_, _, _, _, _)
\* the scan goes on after a match that ends at e, or after no match (e = -1)
scan_on(forms, text, p, acc, e) ==
  IF e = -1 THEN scan(forms, text, p + 1, acc)
  ELSE scan(forms, text, IF e = p THEN p + 1 ELSE e, Append(acc, <<p, e>>))

scan(forms, text, p, acc) ==
  IF p > Len(text) THEN acc ELSE scan_on(forms, text, p, acc, match_end(forms, text, p))

\* [m.span() for m in p.finditer(text)]: the non-overlapping matches, left to right
finditer(forms, text) == scan(forms, text, 0, <<>>)

\* the matched texts of the matches at the spans s
matched_texts(s, text) == [k \in 1..Len(s) |-> slice(text, s[k][1], s[k][2])]

\* p.findall(text): the text of every match
findall(forms, text) == matched_texts(finditer(forms, text), text)

\* p.search(text) is not None
search(forms, text) == finditer(forms, text) # <<>>

\* ------------------------------------------------------------------------
\* WordNetLemmatizer().lemmatize(word, "v") on the words of the model: a verb
\* form goes to its base form, any other string comes back unchanged
\* ------------------------------------------------------------------------

lemmatize(word) ==
  CASE word = W.bailed -> W.bail
    [] word = W.bails -> W.bail
    [] word = W.jailed -> W.jail
    [] word = W.jails -> W.jail
    [] word = W.jacked -> W.jack
    [] word = W.is -> W.be
    [] word = W.are -> W.be
    [] word = W.was -> W.be
    [] word = W.were -> W.be
    [] word = W.became -> W.become
    [] word = W.grew -> W.grow
    [] word = W.accustomed -> W.accustom
    [] word = W.wants -> W.want
    [] word = W.wanted -> W.want
    [] word = W.knows -> W.know
    [] word = W.knew -> W.know
    [] word = W.eating -> W.eat
    [] OTHER -> word

\* [WordNetLemmatizer().lemmatize(word, "v") for word in words]
lemmas(words) == [k \in 1..Len(words) |-> lemmatize(words[k])]

\* [WordNetLemmatizer().lemmatize(word, "v") for word in sentence.split()]
sentence_lemma(text) == lemmas(split(text))

\* " ".join(sentence_lemma)
sentence_lemma_string(text) == join(sentence_lemma(text))

\* ------------------------------------------------------------------------
\* I_getpatterns.py
\* ------------------------------------------------------------------------

\* [c, c + [item]] for every c of rest, in order
with_and_without(rest, item) ==
  [k \in 1..(2 * Len(rest)) |->
     IF k % 2 = 1 THEN rest[(k + 1) \div 2] ELSE Append(rest[k \div 2], item)]

RECURSIVE combs(_)
\* every sub-list of items: for c in combs(items[1:]): cs += [c, c + [items[0]]]
combs(items) ==
  IF items = <<>> THEN << <<>> >> ELSE with_and_without(combs(Tail(items)), items[1])

\* [run for alt, run in zip(alts, runs) if alt in tags]
runs_tagged(alts, runs, tags) ==
  LET n == Min(Len(alts), Len(runs))
      F[k \in 0..n] ==
        IF k = 0 THEN <<>>
        ELSE IF alts[k] \in tags THEN Append(F[k - 1], runs[k]) ELSE F[k - 1]
  IN F[n]

RECURSIVE extend_each(_, _)
\* [out + t for out in output for t in tails]
extend_each(output, tails) ==
  IF output = <<>> THEN <<>>
  ELSE [k \in 1..Len(tails) |-> output[1] \o tails[k]] \o extend_each(Tail(output), tails)

\* in_run_order that keeps the order in which the words were added
in_added_order(runs, out) == out

\* [word for word in runs if word in out]
in_run_order(runs, out) == SelectSeq(runs, LAMBDA word : In(word, out))

RECURSIVE unique(_, _)
\* list(dict.fromkeys(items)): the first occurrence of every item, in order
unique(items, acc) ==
  IF items = <<>> THEN acc
  ELSE unique(Tail(items), IF In(items[1], acc) THEN acc ELSE Append(acc, items[1]))

\* [[x] for x in items]
singletons(items) == [k \in 1..Len(items) |-> <<items[k]>>]

\* the constants alone, then the constants with every non-empty combination
\* of articles and o-constants
with_articles(output, poss_articles) ==
  IF Len(poss_articles) > 1
  THEN output \o extend_each(output, Tail(poss_articles))
  ELSE output

\* every output so far, then every output so far with one verb
with_verbs(output, verbs) ==
  IF Len(verbs) > 0 THEN output \o extend_each(output, singletons(verbs)) ELSE output

\* final_output: the words of every output in the order of the runs
final_output(output, runs) ==
  [k \in 1..Len(output) |-> join(in_run_order(runs, output[k]))]

get_patterns(entry_alt, entry_runs) ==
  unique(final_output(
           with_verbs(
             with_articles(<< runs_tagged(entry_alt, entry_runs, {"constant"}) >>,
                           combs(runs_tagged(entry_alt, entry_runs, {"article", "o-constant"}))),
             runs_tagged(entry_alt, entry_runs, {"verb"})),
           entry_runs),
         <<>>)

\* ------------------------------------------------------------------------
\* J_getwordforms.py: word_forms holds, per unit, one list of forms per word
\* of the unit, or the string "NA" for a variable
\* ------------------------------------------------------------------------

\* a word_forms item that is a list (isinstance(x, list)) and one that is not
AsList(v) == [list |-> TRUE, v |-> v]

NA == [list |-> FALSE, v |-> "NA"]

\* an entry of data["dictionary"], with the patterns I_getpatterns.py stores
Entry(id, alt, runs, word_forms) ==
  [id |-> id, alt |-> alt, runs |-> runs, word_forms |-> word_forms,
   patterns |-> get_patterns(alt, runs),
   range |-> <<"range", id>>,
   phrase |-> <<"phrase", id>>, phrase_html |-> <<"phrase_html", id>>,
   definition |-> <<"definition", id>>, definition_html |-> <<"definition_html", id>>]

\* the forms get_forms returns for the words of the model's entries; every
\* list holds the word itself, and what else it holds is the word_forms
\* package's choice: F_know and F_Jack lack forms that occur in sentences
F_bail == <<W.bail, W.bailed, W.bails>>
F_out == <<W.out>>
F_of == <<W.of>>
F_jail == <<W.jail, W.jails, W.jailed>>
F_be == <<W.be, W.is, W.are, W.was, W.were>>
F_become == <<W.become, W.became>>
F_grow == <<W.grow, W.grew>>
F_accustomed == <<W.accustomed>>
F_to == <<W.to>>
F_want == <<W.want, W.wants, W.wanted>>
F_for == <<W.for>>
F_nothing == <<W.nothing>>
F_know == <<W.know, W.knows>>
F_Jack == <<W.Jack>>
F_and == <<W.and>>

\* bail someone out of jail
E_bail_someone_out ==
  Entry(0, <<"constant", "variable", "constant", "o-constant">>,
        <<W.bail, W.someone, W.out, join(<<W.of, W.jail>>)>>,
        <<AsList(<<F_bail>>), NA, AsList(<<F_out>>), AsList(<<F_of, F_jail>>)>>)

\* be ~; become ~; grow ~ accustomed to
E_accustomed_to ==
  Entry(1, <<"verb", "verb", "verb", "constant">>,
        <<W.be, W.become, W.grow, join(<<W.accustomed, W.to>>)>>,
        <<AsList(<<F_be>>), AsList(<<F_become>>), AsList(<<F_grow>>),
          AsList(<<F_accustomed, F_to>>)>>)

\* want for nothing
E_want_for_nothing ==
  Entry(2, <<"constant">>, <<join(<<W.want, W.for, W.nothing>>)>>,
        <<AsList(<<F_want, F_for, F_nothing>>)>>)

\* know Jack
E_know_jack ==
  Entry(3, <<"constant", "constant">>, <<W.know, W.Jack>>,
        <<AsList(<<F_know>>), AsList(<<F_Jack>>)>>)

\* bail out (of something)
E_bail_out ==
  Entry(4, <<"constant", "o-constant", "variable">>,
        <<join(<<W.bail, W.out>>), W.of, W.someone>>,
        <<AsList(<<F_bail, F_out>>), AsList(<<F_of>>), NA>>)

\* out and out
E_out_and_out ==
  Entry(5, <<"constant">>, <<join(<<W.out, W.and, W.out>>)>>,
        <<AsList(<<F_out, F_and, F_out>>)>>)

\* data["dictionary"]; entry k of the list is data[k + 1]
data ==
  <<E_bail_someone_out, E_accustomed_to, E_want_for_nothing, E_know_jack,
    E_bail_out, E_out_and_out>>

\* ------------------------------------------------------------------------
\* L_algorithm.py: helpers
\* ------------------------------------------------------------------------

RECURSIVE flat_list(_)
\* [item for pair in tuple_list for item in pair]
flat_list(tuple_list) ==
  IF tuple_list = <<>> THEN <<>>
  ELSE <<tuple_list[1][1], tuple_list[1][2]>> \o flat_list(Tail(tuple_list))

\* (list[0], list[-1])
first_and_last(list) == <<list[1], list[Len(list)]>>

\* get_match_span with the end of the first pair taken for the end of the last
get_match_span_of_first_pair(tuple_list) == <<tuple_list[1][1], tuple_list[1][2]>>

\* (flat_list[0], flat_list[-1])
get_match_span(tuple_list) == first_and_last(flat_list(tuple_list))

RECURSIVE insert_sorted(_, _)
insert_sorted(x, list) ==
  IF list = <<>> THEN <<x>>
  ELSE IF x < list[1] THEN <<x>> \o list
  ELSE <<list[1]>> \o insert_sorted(x, Tail(list))

RECURSIVE sorted(_)
\* sorted(list) of numbers, ascending
sorted(list) ==
  IF list = <<>> THEN <<>>
  ELSE insert_sorted(list[Len(list)], sorted(SubSeq(list, 1, Len(list) - 1)))

\* sorted(list) == list
equals_sorted(list) == sorted(list) = list

\* is_it_sorted that compares the sorted list with itself
is_it_sorted_with_itself(tuple_list) ==
  sorted(flat_list(tuple_list)) = sorted(flat_list(tuple_list))

\* sorted(flat_list) == flat_list
is_it_sorted(tuple_list) == equals_sorted(flat_list(tuple_list))

\* longest() applied to one list of forms: its items are strings
longest_forms(forms) == Len(forms)

\* longest() applied to one word_forms item: 0 for the string "NA"
longest_unit(u) ==
  IF ~u.list THEN 0
  ELSE SeqMax(<<Len(u.v)>>
              \o [k \in 1..Len(u.v) |-> Len(u.v[k])]
              \o [k \in 1..Len(u.v) |-> longest_forms(u.v[k])])

\* length of the longest list in the nested list l = entry["word_forms"]
longest(l) ==
  SeqMax(<<Len(l)>>
         \o [k \in 1..Len(l) |-> IF l[k].list THEN Len(l[k].v) ELSE 0]
         \o [k \in 1..Len(l) |-> longest_unit(l[k])])

\* ------------------------------------------------------------------------
\* get_potential_matches
\* ------------------------------------------------------------------------

\* any(w in forms for w in words)
any_in(words, forms) == \E k \in 1..Len(words) : In(words[k], forms)

\* form_match without the look at the lemmas of the sentence
form_match_without_lemmas(forms, text) == IF search(forms, text) THEN 1 ELSE 0

\* one word of a constant whose text is not in the sentence: a form in the
\* sentence, else a lemma of the sentence among the forms
form_match(forms, text) ==
  IF search(forms, text) THEN 1
  ELSE IF any_in(sentence_lemma(text), forms) THEN 1
  ELSE 0

\* one word of a multiple word constant
word_match(w, forms, text) ==
  IF contains(w, text) THEN 1 ELSE form_match(forms, text)

\* all_words_matched that is content with one matched word
some_word_matched(word_match_count, word_count) == word_match_count >= 1

\* the test that closes the loop over the words of a multiple word constant
all_words_matched(word_match_count, word_count) == word_match_count = word_count

\* the words ws of a multiple word constant, counted one by one
words_match(ws, wf, text) ==
  IF all_words_matched(SeqSum([c \in 1..Len(ws) |-> word_match(ws[c], wf.v[c], text)]),
                       Len(ws))
  THEN 1 ELSE 0

\* a constant r whose text is not in the sentence, ws being r.split()
split_match(ws, wf, text) ==
  IF Len(ws) = 1 THEN form_match(wf.v[1], text)
  ELSE IF Len(ws) > 1 THEN words_match(ws, wf, text)
  ELSE 0

\* constant_match that looks for the words of a multiple word constant only
\* side by side, as the text of the constant
constant_match_side_by_side(r, wf, text) ==
  IF contains(r, text) THEN 1
  ELSE IF Len(split(r)) = 1 THEN split_match(split(r), wf, text)
  ELSE 0

\* what one constant unit adds to constant_match_count
constant_match(r, wf, text) ==
  IF contains(r, text) THEN 1 ELSE split_match(split(r), wf, text)

\* entry["alt"].count("constant")
constant_count(entry) == Cardinality({k \in 1..Len(entry.alt) : entry.alt[k] = "constant"})

\* zip(alt, runs, word_forms) stops with the shortest list
zip_length(entry) == Min(Len(entry.alt), Min(Len(entry.runs), Len(entry.word_forms)))

constant_match_count(entry, text) ==
  SeqSum([k \in 1..zip_length(entry) |->
            IF entry.alt[k] = "constant"
            THEN constant_match(entry.runs[k], entry.word_forms[k], text)
            ELSE 0])

RECURSIVE index_from(_, _, _)
\* list.index(x): the 0-based index of the first item equal to x
index_from(list, x, k) ==
  IF list[k + 1] = x THEN k ELSE index_from(list, x, k + 1)

\* the entry passes the coarse filter
is_potential_match(entry, text) == constant_count(entry) = constant_match_count(entry, text)

RECURSIVE potential_from(_, _, _, _)
\* the loop over data["dictionary"], from entry k on
potential_from(dictionary, k, text, acc) ==
  IF k > Len(dictionary) THEN acc
  ELSE potential_from(dictionary, k + 1, text,
                      IF is_potential_match(dictionary[k], text)
                      THEN Append(acc, index_from(dictionary, dictionary[k], 0))
                      ELSE acc)

get_potential_matches(text) == potential_from(data_dictionary, 1, text, <<>>)

\* ------------------------------------------------------------------------
\* look_closer
\* ------------------------------------------------------------------------

\* One dict of record[i]. "match" and "span" are the two lists of the code;
\* "text" notes, for each span, the string it is an offset into ("raw": the
\* sentence, "lemma": sentence_lemma_string), which the code does not keep.
new_ddict == [match |-> <<>>, span |-> <<>>, text |-> <<>>]

append_to(ddict, word, span, text) ==
  [match |-> Append(ddict.match, word),
   span |-> Append(ddict.span, span),
   text |-> Append(ddict.text, text)]

RECURSIVE append_others(_, _, _, _, _, _, _)
\* for i_match, i_span in zip(m, s):
\*     if match == i_match and span != i_span: append (word, i_span)
append_others(ddict, word, match, span, m, s, text) ==
  IF m = <<>> \/ s = <<>> THEN ddict
  ELSE append_others(IF match = m[1] /\ span # s[1]
                     THEN append_to(ddict, word, s[1], text)
                     ELSE ddict,
                     word, match, span, Tail(m), Tail(s), text)

\* the occurrence of index k - 1, of several, added to the dict of the same
\* index
add_indexed(ddict, word, m, s, k, text) ==
  IF In(word, ddict.match) /\ In(s[k], ddict.span)
  THEN append_others(ddict, word, m[k], s[k], m, s, text)
  ELSE append_to(ddict, word, s[k], text)

\* the dicts of record[i] that the occurrences m, s of one word are added to:
\* a sole occurrence to every dict, the occurrence of index k to the dict of
\* index k when there are several (an index past the record raises IndexError,
\* which the except clause swallows)
update_record(rec, word, m, s, text) ==
  [k \in 1..Len(rec) |->
     IF Len(m) = 1 /\ Len(s) = 1 THEN append_to(rec[k], word, s[1], text)
     ELSE IF k > Len(s) THEN rec[k]
     ELSE add_indexed(rec[k], word, m, s, k, text)]

\* the occurrences s of a word in the lemmatized sentence ls, if any
locate_in_lemma(rec, word, s, ls) ==
  IF Len(s) >= 1 THEN update_record(rec, word, matched_texts(s, ls), s, "lemma") ELSE rec

\* locate_in that scans the lemmatized sentence whatever the scan of the
\* sentence found
locate_in_lemma_always(rec, word, forms, s, sent, ls) ==
  locate_in_lemma(rec, word, finditer(forms, ls), ls)

\* the occurrences s of a word in the sentence or, when there is none, its
\* occurrences in the lemmatized sentence
locate_in(rec, word, forms, s, sent, ls) ==
  IF Len(s) >= 1 THEN update_record(rec, word, matched_texts(s, sent), s, "raw")
  ELSE locate_in_lemma(rec, word, finditer(forms, ls), ls)

\* one word of a unit
locate(rec, word, forms, sent) ==
  locate_in(rec, word, forms, finditer(forms, sent), sent, sentence_lemma_string(sent))

\* the tags look_closer looks for
Located == {"article", "verb", "o-constant", "constant"}

\* the word a match is recorded under: the run itself for a single word
\* unit, the word of index c - 1 of the run otherwise
recorded_word(r, ws, c) == IF Len(ws) = 1 THEN r ELSE ws[c]

RECURSIVE locate_words(_, _, _, _, _, _)
\* the words of a unit from word c on, ws being r.split()
locate_words(rec, r, ws, wf, c, sent) ==
  IF c > Len(ws) THEN rec
  ELSE locate_words(locate(rec, recorded_word(r, ws, c), wf.v[c], sent),
                    r, ws, wf, c + 1, sent)

\* the body of the loop over zip(alt, runs, word_forms) for one unit
locate_unit(rec, a, r, wf, sent) ==
  IF a \in Located THEN locate_words(rec, r, split(r), wf, 1, sent) ELSE rec

RECURSIVE locate_units(_, _, _, _)
\* the loop over zip(alt, runs, word_forms) from unit k on
locate_units(rec, entry, k, sent) ==
  IF k > zip_length(entry) THEN rec
  ELSE locate_units(locate_unit(rec, entry.alt[k], entry.runs[k], entry.word_forms[k], sent),
                    entry, k + 1, sent)

\* record[i] before the loop: longest(word_forms) + 2 empty dicts
new_record(entry) == [j \in 1..(longest(entry.word_forms) + 2) |-> new_ddict]

\* record[i] after the loop over the units of the entry
build_record(entry, sent) == locate_units(new_record(entry), entry, 1, sent)

\* len(sentence[s[-1] : ddict["span"][i + 1][0]].strip().split()) for every
\* pair of consecutive spans; the offsets are applied to the sentence
gaps(ddict, sent) ==
  [k \in 1..(Len(ddict.span) - 1) |->
     Len(split(slice(sent, ddict.span[k][2], ddict.span[k + 1][1])))]

\* the locality threshold of the final test, r["distance"] <= 3.0
MaxDistance == 3

\* 0 if max(distance) == 0 else (max(distance) if max(distance) > 3
\* else sum(distance) / len(distance)), as the fraction num / den
distance_of(d, max_d) ==
  IF max_d = 0 THEN [num |-> 0, den |-> 1]
  ELSE IF max_d > MaxDistance THEN [num |-> max_d, den |-> 1]
  ELSE [num |-> SeqSum(d), den |-> Len(d)]

\* the list distance is not empty
distance_list(d) == distance_of(d, SeqMax(d))

\* ddict["distance"] as the fraction num / den
distance(ddict, sent) ==
  IF Len(ddict.match) = 0 \/ Len(ddict.match) = 1 THEN [num |-> 0, den |-> 1]
  ELSE distance_list(gaps(ddict, sent))

\* r["distance"] <= 3.0
within_distance(d) == d.num <= MaxDistance * d.den

\* qualifies without the test of the patterns
qualifies_without_patterns(r, entry, sent) ==
  /\ Len(r.match) # 0
  /\ Len(r.span) # 0
  /\ is_it_sorted(r.span)
  /\ within_distance(distance(r, sent))

\* the condition under which a dict of the record is reported
qualifies(r, entry, sent) ==
  /\ Len(r.match) # 0
  /\ Len(r.span) # 0
  /\ In(join(r.match), entry.patterns)
  /\ is_it_sorted(r.span)
  /\ within_distance(distance(r, sent))

\* A reported match: (dictionary[i], len(r["match"]), get_match_span(r["span"])).
\* The entry is named by its id, which J_getwordforms.py makes its index in
\* the dictionary; "found" is the dict of the record the triple was built
\* from, kept for the properties and not returned by the code.
match_of(entry, r) ==
  [entry |-> entry.id, count |-> Len(r.match), span |-> get_match_span(r.span), found |-> r]

RECURSIVE first_recorded(_, _, _, _)
\* first_qualifying that reports the first dict of the record that holds a word
first_recorded(entry, rec, k, sent) ==
  IF k > Len(rec) THEN <<>>
  ELSE IF Len(rec[k].match) # 0 THEN << match_of(entry, rec[k]) >>
  ELSE first_recorded(entry, rec, k + 1, sent)

RECURSIVE all_qualifying(_, _, _, _)
\* first_qualifying without the break: every dict that qualifies is reported
all_qualifying(entry, rec, k, sent) ==
  IF k > Len(rec) THEN <<>>
  ELSE (IF qualifies(rec[k], entry, sent) THEN << match_of(entry, rec[k]) >> ELSE <<>>)
       \o all_qualifying(entry, rec, k + 1, sent)

RECURSIVE first_qualifying(_, _, _, _)
\* the loop over record[i] from the dict k on: the first dict that qualifies
\* is reported, and the break ends the loop
first_qualifying(entry, rec, k, sent) ==
  IF k > Len(rec) THEN <<>>
  ELSE IF qualifies(rec[k], entry, sent) THEN << match_of(entry, rec[k]) >>
  ELSE first_qualifying(entry, rec, k + 1, sent)

\* the matches of one entry: none or one
entry_matches(entry, sent) == first_qualifying(entry, build_record(entry, sent), 1, sent)

RECURSIVE insert_by_count(_, _)
insert_by_count(x, list) ==
  IF list = <<>> THEN <<x>>
  ELSE IF x.count > list[1].count THEN <<x>> \o list
  ELSE <<list[1]>> \o insert_by_count(x, Tail(list))

\* sorted_by_count that leaves the matches in the order of discovery
left_unsorted(matches) == matches

RECURSIVE sorted_by_count(_)
\* sorted(matches, key=lambda x: x[1], reverse=True): the sort is stable
sorted_by_count(matches) ==
  IF matches = <<>> THEN <<>>
  ELSE insert_by_count(matches[Len(matches)],
                       sorted_by_count(SubSeq(matches, 1, Len(matches) - 1)))

RECURSIVE matches_from(_, _, _, _)
\* the loop over the entries of potential_matches from index k on
matches_from(dictionary, pm, k, sent) ==
  IF k > Len(pm) THEN <<>>
  ELSE entry_matches(dictionary[pm[k] + 1], sent) \o matches_from(dictionary, pm, k + 1, sent)

look_closer(pm, sent) == sorted_by_count(matches_from(data_dictionary, pm, 1, sent))


\* ------------------------------------------------------------------------
\* What the calls leave in data["dictionary"]
\* ------------------------------------------------------------------------

\* get_potential_matches reads the entries: it assigns to its own counters
\* and appends to its own list potential_matches
entries_after_get_potential_matches(dictionary, text) == dictionary

\* entries_after_look_closer that keeps the sentence among the patterns of the
\* entries examined
entries_with_sentence(dictionary, pm, sent) ==
  [k \in 1..Len(dictionary) |->
     IF In(k - 1, pm)
     THEN [dictionary[k] EXCEPT !.patterns = Append(@, sent)]
     ELSE dictionary[k]]

\* look_closer appends to its own lists dictionary, record and matches and to
\* the dicts it creates for the record; no statement writes to an entry
entries_after_look_closer(dictionary, pm, sent) == dictionary

\* entries_after_find_idioms that empties the patterns of the entries reported
entries_reported_once(dictionary, pairs) ==
  [k \in 1..Len(dictionary) |->
     IF \E j \in 1..Len(pairs) : pairs[j].entry = k - 1
     THEN [dictionary[k] EXCEPT !.patterns = <<>>]
     ELSE dictionary[k]]

\* find_idioms copies fields of the entries into the dicts of its output
entries_after_find_idioms(dictionary, pairs) == dictionary

\* ------------------------------------------------------------------------
\* Exceptions: wf[c] on a unit of word_forms that holds too few lists
\* ------------------------------------------------------------------------

\* wf[c - 1] raises IndexError
forms_missing(wf, c) == wf.list /\ Len(wf.v) < c

\* the words of a constant the filter looks up the forms of, one of them missing
words_raise(ws, wf, text) ==
  IF Len(ws) = 1 THEN forms_missing(wf, 1)
  ELSE \E c \in 1..Len(ws) : ~contains(ws[c], text) /\ forms_missing(wf, c)

\* get_potential_matches raises on a constant whose text is not in the sentence
constant_raises(r, wf, text) == ~contains(r, text) /\ words_raise(split(r), wf, text)

entry_raises(entry, text) ==
  \E k \in 1..zip_length(entry) :
     entry.alt[k] = "constant" /\ constant_raises(entry.runs[k], entry.word_forms[k], text)

\* get_potential_matches(text) ends with an exception
filter_raises(dictionary, text) ==
  \E k \in 1..Len(dictionary) : entry_raises(dictionary[k], text)

\* look_closer compiles the forms of every word of every unit it looks for
unit_raises(a, ws, wf) ==
  a \in Located /\ \E c \in 1..Len(ws) : forms_missing(wf, c)

\* look_closer(pm, sentence) ends with an exception
matcher_raises(dictionary, pm) ==
  \E k \in 1..Len(pm) :
     \E u \in 1..zip_length(dictionary[pm[k] + 1]) :
        unit_raises(dictionary[pm[k] + 1].alt[u],
                    split(dictionary[pm[k] + 1].runs[u]),
                    dictionary[pm[k] + 1].word_forms[u])

\* ------------------------------------------------------------------------
\* find_idioms
\* ------------------------------------------------------------------------

\* the default of the argument limit
DefaultLimit == 10

\* the defaults of the arguments html, span, entry_range and entry_id
DefaultFlags == [html |-> FALSE, span |-> FALSE, entry_range |-> FALSE, entry_id |-> FALSE]

\* take that keeps the whole list
take_all(list, lim) == list

\* list[:lim]
take(list, lim) ==
  IF lim >= 0 THEN SubSeq(list, 1, Min(lim, Len(list)))
  ELSE SubSeq(list, 1, Max(Len(list) + lim, 0))

\* [(item[0], item[2]) for item in ranked]; an entry is told by its id
entry_and_span(ranked) ==
  [k \in 1..Len(ranked) |-> [entry |-> ranked[k].entry, span |-> ranked[k].span]]

RECURSIVE groupby_keys(_)
\* [k for k, _ in itertools.groupby(items)]: one item for every run of equal
\* consecutive items
groupby_keys(items) ==
  IF Len(items) <= 1 THEN items
  ELSE IF items[1] = items[2] THEN groupby_keys(Tail(items))
  ELSE <<items[1]>> \o groupby_keys(Tail(items))

\* updated that adds the key whatever the flag
updated_whatever(tmp, on, key, value) == (key :> value) @@ tmp

\* tmp.update({key: value}) when the flag is set
updated(tmp, on, key, value) == IF on THEN (key :> value) @@ tmp ELSE tmp

\* the phrase and the definition, as html or as text
shown(entry, fl) ==
  IF fl.html
  THEN ("phrase_html" :> entry.phrase_html) @@ ("definition_html" :> entry.definition_html)
  ELSE ("phrase" :> entry.phrase) @@ ("definition" :> entry.definition)

\* the dict of the output for one kept pair m of the entry
projected(entry, m, fl) ==
  updated(updated(updated(shown(entry, fl), fl.span, "span", m.span),
                  fl.entry_range, "entry_range", entry.range),
          fl.entry_id, "entry_id", entry.id)

\* the list find_idioms returns for the pairs it kept
output_of(pairs, fl) ==
  [k \in 1..Len(pairs) |-> projected(data_dictionary[pairs[k].entry + 1], pairs[k], fl)]

\* a call that ended with an exception returned nothing
raised_with(pm) ==
  [raised |-> TRUE, potential_matches |-> pm, lc |-> <<>>, kept |-> <<>>, idioms |-> <<>>]

find_idioms_from_kept(pm, ranked, pairs, fl) ==
  [raised |-> FALSE, potential_matches |-> pm, lc |-> ranked, kept |-> pairs,
   idioms |-> output_of(pairs, fl)]

find_idioms_from_lc(pm, ranked, lim, fl) ==
  find_idioms_from_kept(pm, ranked, groupby_keys(entry_and_span(take(ranked, lim))), fl)

find_idioms_from_pm(pm, text, lim, fl) ==
  IF matcher_raises(data_dictionary, pm) THEN raised_with(pm)
  ELSE find_idioms_from_lc(pm, look_closer(pm, text), lim, fl)

\* one call of find_idioms: its locals, and the list it returns as idioms
find_idioms_run(text, lim, fl) ==
  IF filter_raises(data_dictionary, text) THEN raised_with(<<>>)
  ELSE find_idioms_from_pm(get_potential_matches(text), text, lim, fl)

find_idioms(text, lim, fl) == find_idioms_run(text, lim, fl).idioms
\* ------------------------------------------------------------------------
\* The sentences the matcher is queried with
\* ------------------------------------------------------------------------

\* every list of at most n words of the vocabulary v
WordLists(v, n) == UNION {[1..k -> v] : k \in 0..n}

\* the words around "bail someone out of jail" and "bail out (of something)"
VocabBail == {W.bail, W.out, W.of, W.jail}

\* the words of "out and out"
VocabOut == {W.out, W.and}

\* the words of "want for nothing"
VocabWant == {W.want, W.for, W.nothing}

\* the words placed between the two constants of "know Jack"
Fillers == {W.jailed, W.him}

\* know, up to MaxGap fillers, a word that is or lemmatizes to [Jj]ack, and
\* possibly a last word that only holds "Jack" as a substring
GapLists ==
  {<<W.know>> \o mid \o <<last>> \o tail :
     mid \in WordLists(Fillers, MaxGap),
     last \in {W.jacked, W.Jack},
     tail \in {<<>>, <<W.Jackson>>}}

\* the sentences of the documented scenarios, and inflected variants
ScenarioLists ==
  { <<W.I, W.need, W.some, W.cash, W.to, W.bail, W.out, W.a, W.friend_bang>>,
    <<W.The, W.children, W.are, W.accustomed, W.to, W.eating, W.late, W.in, W.the,
      W.evening_dot>>,
    <<W.The, W.children, W.grew, W.accustomed, W.to, W.eating, W.late>>,
    <<W.bailed, W.him, W.out, W.of, W.jail>>,
    <<W.bailed, W.him, W.out, W.of, W.cash>>,
    <<W.wanted, W.for, W.nothing>>,
    <<W.know, W.jacked>>,
    <<W.knew, W.Jack>>,
    <<W.knew, W.him, W.Jack>> }

Sentences ==
  {join(ws) : ws \in WordLists(VocabBail, MaxLen) \cup WordLists(VocabOut, MaxLen)
                     \cup WordLists(VocabWant, MaxLen) \cup GapLists \cup ScenarioLists}

\* list[::-1]
reversed(list) == [k \in 1..Len(list) |-> list[Len(list) + 1 - k]]

\* the lists look_closer is called with directly: any one entry, or the
\* potential matches of the sentence in the opposite order
DirectLists(text) ==
  {<<i>> : i \in 0..(Len(data_dictionary) - 1)} \cup {reversed(get_potential_matches(text))}

\* ------------------------------------------------------------------------
\* The calls
\* ------------------------------------------------------------------------

\* find_idioms has not been called: its arguments are the defaults
NoFacade ==
  /\ limit = DefaultLimit
  /\ flags = DefaultFlags
  /\ kept = <<>>
  /\ idioms = <<>>
  /\ first_idioms = <<>>
  /\ queries = {}
  /\ raised = FALSE

\* get_patterns has not been called
NoPatterns ==
  /\ given_alt = <<>>
  /\ given_runs = <<>>
  /\ patterns_list = <<>>

\* the build scripts have run and left the dictionary in phrases.json
NoOverride ==
  /\ phrases_json = data
  /\ index = 0

\* a file: missing, opened with "wb" and so emptied, or holding what
\* pickle.dump wrote
NoFile(empty) == [exists |-> FALSE, written |-> FALSE, content |-> empty]

Truncated(empty) == [exists |-> TRUE, written |-> FALSE, content |-> empty]

Written(content) == [exists |-> TRUE, written |-> TRUE, content |-> content]

\* def get_potential_matches(sentence)
parameters_of_get_potential_matches == 1

\* M_validate.py has not been run
NoValidation ==
  /\ examples = <<>>
  /\ matcher_parameters = parameters_of_get_potential_matches
  /\ today = 0
  /\ validation_data = <<>>
  /\ progress_pickle = NoFile(0)
  /\ file_name = 0
  /\ run_output = <<>>
  /\ validation_progress = 0
  /\ processed = <<>>
  /\ interruptions = 0

\* Python's None
None == [none |-> TRUE, alt |-> <<>>, runs |-> <<>>]

\* the build scripts are not running
NoBuild ==
  /\ typically = <<>>
  /\ entry_before = None
  /\ asterisk = None
  /\ built = <<>>

NoTools == NoOverride /\ NoValidation /\ NoBuild

Init ==
  /\ sentence \in Sentences
  /\ pc = "start"
  /\ potential_matches = <<>>
  /\ lc = <<>>
  /\ data_dictionary = data
  /\ NoFacade
  /\ NoPatterns
  /\ NoTools

\* potential_matches = get_potential_matches(sentence)
CallGetPotentialMatches ==
  /\ pc = "start"
  /\ potential_matches' = get_potential_matches(sentence)
  /\ pc' = "filtered"
  /\ data_dictionary' = entries_after_get_potential_matches(data_dictionary, sentence)
  /\ UNCHANGED <<sentence, lc, facade_vars, pattern_vars, tool_vars>>

\* lc = look_closer(potential_matches, sentence), as find_idioms calls it
CallLookCloser ==
  /\ pc = "filtered"
  /\ lc' = look_closer(potential_matches, sentence)
  /\ pc' = "ranked"
  /\ data_dictionary' = entries_after_look_closer(data_dictionary, potential_matches, sentence)
  /\ UNCHANGED <<sentence, potential_matches, facade_vars, pattern_vars, tool_vars>>

\* look_closer(pm, sentence) called with a list of the caller's choice
CallLookCloserOn(pm) ==
  /\ pc = "start"
  /\ potential_matches' = pm
  /\ lc' = look_closer(pm, sentence)
  /\ pc' = "examined"
  /\ data_dictionary' = entries_after_look_closer(data_dictionary, pm, sentence)
  /\ UNCHANGED <<sentence, facade_vars, pattern_vars, tool_vars>>

Next ==
  \/ CallGetPotentialMatches
  \/ CallLookCloser
  \/ (pc = "start" /\ \E pm \in DirectLists(sentence) : CallLookCloserOn(pm))

Spec == Init /\ [][Next]_vars


\* ------------------------------------------------------------------------
\* The calls of get_patterns: I_getpatterns.py calls it once per entry, with
\* the alt and runs lists of the entry
\* ------------------------------------------------------------------------

\* longest entry the pattern generator is given, in units
MaxUnits == 3

\* the tags of the units of an entry
Tags == {"constant", "variable", "o-constant", "article", "verb"}

\* the texts of the units: those of "get a free hand", any of them under any
\* tag and more than once
UnitTexts == {W.get, W.a, join(<<W.free, W.hand>>)}

InitPatterns ==
  /\ \E n \in 0..MaxUnits :
        /\ given_alt \in [1..n -> Tags]
        /\ given_runs \in [1..n -> UnitTexts]
  /\ patterns_list = <<>>
  /\ pc = "entry"
  /\ sentence = <<>>
  /\ potential_matches = <<>>
  /\ lc = <<>>
  /\ data_dictionary = data
  /\ NoFacade
  /\ NoTools

\* patterns = get_patterns(entry["alt"], entry["runs"])
CallGetPatterns ==
  /\ pc = "entry"
  /\ patterns_list' = get_patterns(given_alt, given_runs)
  /\ pc' = "patterns"
  /\ UNCHANGED <<sentence, potential_matches, lc, data_dictionary, facade_vars,
                 given_alt, given_runs, tool_vars>>

NextPatterns == CallGetPatterns

SpecPatterns == InitPatterns /\ [][NextPatterns]_vars

\* ------------------------------------------------------------------------
\* The calls of find_idioms: one query, the same query again, and calls of
\* the three functions with other sentences in between
\* ------------------------------------------------------------------------

\* longest enumerated sentence of a query, in words
MaxQueryLen == 2

\* the sentences find_idioms is called with: the empty sentence, short
\* sentences, those of the documented scenarios, one with two matches of
\* different counts and one that passes the filter on a substring only
QuerySentences ==
  {join(ws) : ws \in WordLists(VocabBail, MaxQueryLen) \cup ScenarioLists
                     \cup {<<W.bail, W.out, W.of, W.jail>>, <<W.know, W.Jackson>>}}

\* the values of the argument limit
Limits == {0, 1, 2, DefaultLimit}

\* the values of the arguments html, span, entry_range and entry_id
FlagSets ==
  { DefaultFlags,
    [html |-> FALSE, span |-> TRUE, entry_range |-> FALSE, entry_id |-> TRUE],
    [html |-> TRUE, span |-> TRUE, entry_range |-> TRUE, entry_id |-> TRUE] }

\* the sentences of the calls made in between
OtherSentences == {join(<<W.bail, W.out>>), join(<<W.wanted, W.for, W.nothing>>)}

\* the functions of the module
Functions == {"get_potential_matches", "look_closer", "find_idioms"}

InitFacade ==
  /\ sentence \in QuerySentences
  /\ limit \in Limits
  /\ flags \in FlagSets
  /\ pc = "idle"
  /\ potential_matches = <<>>
  /\ lc = <<>>
  /\ kept = <<>>
  /\ idioms = <<>>
  /\ first_idioms = <<>>
  /\ queries = {}
  /\ raised = FALSE
  /\ data_dictionary = data
  /\ NoPatterns
  /\ NoTools

\* data["dictionary"] after a call of find_idioms that ran as r
entries_after_run(text, r) ==
  entries_after_find_idioms(
    entries_after_look_closer(
      entries_after_get_potential_matches(data_dictionary, text),
      r.potential_matches, text),
    r.kept)

\* the locals and the result of the run r of find_idioms(sentence, limit, flags)
Return(r) ==
  /\ potential_matches' = r.potential_matches
  /\ lc' = r.lc
  /\ kept' = r.kept
  /\ idioms' = r.idioms
  /\ raised' = r.raised
  /\ data_dictionary' = entries_after_run(sentence, r)

\* find_idioms(sentence, limit, ...)
CallFindIdioms ==
  /\ pc = "idle"
  /\ \E r \in {find_idioms_run(sentence, limit, flags)} :
        Return(r) /\ first_idioms' = r.idioms
  /\ pc' = "returned"
  /\ UNCHANGED <<sentence, limit, flags, queries, pattern_vars, tool_vars>>

\* the same call again
CallFindIdiomsAgain ==
  /\ pc = "returned"
  /\ \E r \in {find_idioms_run(sentence, limit, flags)} : Return(r)
  /\ pc' = "repeated"
  /\ UNCHANGED <<sentence, limit, flags, first_idioms, queries, pattern_vars, tool_vars>>

\* a call of function f with another sentence, its result dropped
Between(f, dictionary) ==
  /\ pc = "returned"
  /\ f \notin queries
  /\ queries' = queries \cup {f}
  /\ data_dictionary' = dictionary
  /\ UNCHANGED <<matcher_vars, limit, flags, kept, idioms, first_idioms, raised, pattern_vars, tool_vars>>

OtherGetPotentialMatches(s) ==
  Between("get_potential_matches", entries_after_get_potential_matches(data_dictionary, s))

OtherLookCloser(s) ==
  Between("look_closer",
          entries_after_look_closer(data_dictionary, get_potential_matches(s), s))

OtherFindIdioms(s) ==
  Between("find_idioms", entries_after_run(s, find_idioms_run(s, DefaultLimit, DefaultFlags)))

NextFacade ==
  \/ CallFindIdioms
  \/ CallFindIdiomsAgain
  \/ (pc = "returned" /\ \E s \in OtherSentences : OtherGetPotentialMatches(s))
  \/ (pc = "returned" /\ \E s \in OtherSentences : OtherLookCloser(s))
  \/ (pc = "returned" /\ \E s \in OtherSentences : OtherFindIdioms(s))

SpecFacade == InitFacade /\ [][NextFacade]_vars

\* ------------------------------------------------------------------------
\* Queries over a dictionary that holds an entry with defective word_forms
\* ------------------------------------------------------------------------

\* an entry whose only constant has an empty list of forms: [[[]]]
E_empty_forms == Entry(Len(data), <<"constant">>, <<W.late>>, << AsList(<< <<>> >>) >>)

\* an entry whose only constant has no list of forms at all: [[]]
E_missing_forms == Entry(Len(data), <<"constant">>, <<W.cash>>, << AsList(<<>>) >>)

\* the dictionaries with one defective entry after the entries of data
DefectiveDictionaries == {Append(data, E_empty_forms), Append(data, E_missing_forms)}

InitDefective ==
  /\ sentence \in QuerySentences
  /\ limit \in Limits
  /\ flags \in FlagSets
  /\ pc = "idle"
  /\ potential_matches = <<>>
  /\ lc = <<>>
  /\ kept = <<>>
  /\ idioms = <<>>
  /\ first_idioms = <<>>
  /\ queries = {}
  /\ raised = FALSE
  /\ data_dictionary \in DefectiveDictionaries
  /\ NoPatterns
  /\ NoTools

NextDefective == CallFindIdioms

SpecDefective == InitDefective /\ [][NextDefective]_vars
\* ------------------------------------------------------------------------
\* Properties
\* ------------------------------------------------------------------------

\* look_closer has returned
Examined == pc \in {"ranked", "examined"}

\* the entry of index i of data["dictionary"]
EntryAt(i) == data_dictionary[i + 1]

\* lc holds a match of the entry of index i
Reported(i) == \E k \in 1..Len(lc) : lc[k].entry = i

\* the indices of the dictionary
EntryIds == 0..(Len(data_dictionary) - 1)

\* the units of an entry of the given tags
UnitsTagged(entry, tags) == {k \in 1..zip_length(entry) : entry.alt[k] \in tags}

Optional == {"article", "verb", "o-constant"}

\* the word has an occurrence in the sentence or in the lemmatized sentence
Occurs(forms) ==
  search(forms, sentence) \/ search(forms, sentence_lemma_string(sentence))

\* the occurrences look_closer collects for one word: those in the sentence
\* or, when there is none, those in the lemmatized sentence
Occurrences(forms) ==
  IF search(forms, sentence)
  THEN [spans |-> finditer(forms, sentence), text |-> "raw"]
  ELSE [spans |-> finditer(forms, sentence_lemma_string(sentence)), text |-> "lemma"]

RECURSIVE WordsFrom(_, _)
\* the words of the looked-for units of an entry from unit k on, in order,
\* each with its forms and its occurrences
WordsFrom(entry, k) ==
  IF k > zip_length(entry) THEN <<>>
  ELSE (IF entry.alt[k] \in Located
        THEN LET ws == split(entry.runs[k])
             IN [c \in 1..Len(ws) |->
                   LET occ == Occurrences(entry.word_forms[k].v[c])
                   IN [word |-> ws[c], tag |-> entry.alt[k],
                       spans |-> occ.spans, text |-> occ.text]]
        ELSE <<>>) \o WordsFrom(entry, k + 1)

\* the words of an entry that have an occurrence
PresentWords(entry) == SelectSeq(WordsFrom(entry, 1), LAMBDA w : w.spans # <<>>)

RECURSIVE Combinations(_)
\* one occurrence chosen for every word of ws: the Cartesian product of the
\* occurrence lists, each combination a list of spans
Combinations(ws) ==
  IF ws = <<>> THEN {<<>>}
  ELSE LET rest == Combinations(Tail(ws))
       IN {<<ws[1].spans[i]>> \o c : i \in 1..Len(ws[1].spans), c \in rest}

\* the words and spans of a combination, as a dict of the record
Combined(ws, c) ==
  [match |-> [i \in 1..Len(ws) |-> ws[i].word],
   span |-> c,
   text |-> [i \in 1..Len(ws) |-> ws[i].text]]

\* some combination has its words in the patterns, its spans in order and at
\* most 3 words between consecutive spans
SomeCombinationQualifies(entry) ==
  LET ws == PresentWords(entry)
  IN \E c \in Combinations(ws) : qualifies(Combined(ws, c), entry, sentence)

\* C1: every entry the fine matcher reports for a sentence is among the
\* entries get_potential_matches returns for that sentence (the coarse filter
\* never drops a true positive).
C1_CoarseFilterSound ==
  Examined => \A i \in EntryIds : Reported(i) => In(i, get_potential_matches(sentence))

\* C2: when at least one combination of the Cartesian product of the
\* occurrence lists of an examined entry has its word sequence in the
\* patterns, its spans in left-to-right order and at most 3 words between
\* consecutive spans, look_closer reports the entry.
C2_CartesianComplete ==
  Examined =>
    \A k \in 1..Len(potential_matches) :
       SomeCombinationQualifies(EntryAt(potential_matches[k])) => Reported(potential_matches[k])

\* the string a span of a match is an offset into
TextOf(tag) == IF tag = "raw" THEN sentence ELSE sentence_lemma_string(sentence)

\* the number of words of a string that start before the offset
WordIndex(text, offset) == Cardinality({p \in 1..offset : text[p] = " "})

\* the words of the sentence between the matched words j and j + 1 of a match
WordsBetween(found, j) ==
  WordIndex(TextOf(found.text[j + 1]), found.span[j + 1][1])
  - WordIndex(TextOf(found.text[j]), found.span[j][1]) - 1

\* C3: no reported match has more than 3 words of the sentence between two
\* consecutive matched words.
C3_LocalityBound ==
  Examined =>
    \A k \in 1..Len(lc) :
       \A j \in 1..(Len(lc[k].found.span) - 1) : WordsBetween(lc[k].found, j) <= MaxDistance

C5_PatternMembership ==
  Examined =>
    \A k \in 1..Len(lc) :
       /\ In(join(lc[k].found.match), EntryAt(lc[k].entry).patterns)
       /\ \A u \in UnitsTagged(EntryAt(lc[k].entry), {"constant"}) :
            \A c \in 1..Len(split(EntryAt(lc[k].entry).runs[u])) :
               Occurs(EntryAt(lc[k].entry).word_forms[u].v[c])

\* a match has been reported with a constant found in the lemmatized sentence
C5_Witness ==
  Examined /\ \E k \in 1..Len(lc) : In("lemma", lc[k].found.text) /\ lc[k].count >= 2

\* the place of an entry in the list look_closer was given
Place(i) == CHOOSE k \in 1..Len(potential_matches) : potential_matches[k] = i

\* C6: the list look_closer returns is in non-increasing order of word count,
\* and matches of equal count are in the order of potential_matches.
C6_RankingOrder ==
  Examined =>
    \A i \in 1..Len(lc) : \A j \in (i + 1)..Len(lc) :
       /\ lc[i].count >= lc[j].count
       /\ lc[i].count = lc[j].count => Place(lc[i].entry) < Place(lc[j].entry)

\* two matches of equal count, given to look_closer in the order opposite to
\* that of the dictionary
C6_Witness ==
  /\ pc = "examined"
  /\ Len(lc) >= 2
  /\ lc[1].count = lc[2].count
  /\ lc[1].entry > lc[2].entry

\* the form f stands in the text at offset p as a whole word, case ignored
WholeWordAt(f, text, p) ==
  /\ p + Len(f) <= Len(text)
  /\ eq_ignorecase(SubSeq(text, p + 1, p + Len(f)), f)
  /\ (p = 0 \/ ~IsWordChar(text[p]))
  /\ (p + Len(f) = Len(text) \/ ~IsWordChar(text[p + Len(f) + 1]))

\* (a) the word is a substring of the sentence, or (b) one of its forms is a
\* whole word of the sentence, case ignored, or (c) one of its forms is a
\* token of the lemmatized sentence
Satisfied(w, forms) ==
  \/ contains(w, sentence)
  \/ \E k \in 1..Len(forms) : \E p \in 0..Len(sentence) : WholeWordAt(forms[k], sentence, p)
  \/ \E t \in 1..Len(split(sentence)) : In(lemmatize(split(sentence)[t]), forms)

\* every word of the unit k of an entry is satisfied
UnitSatisfied(entry, u) ==
  \A c \in 1..Len(split(entry.runs[u])) :
     Satisfied(split(entry.runs[u])[c], entry.word_forms[u].v[c])

\* C7: get_potential_matches returns an entry exactly when every constant
\* unit of the entry is satisfied.
C7_CoarseFilterIff ==
  pc = "filtered" =>
    \A i \in EntryIds :
       In(i, potential_matches)
         <=> \A u \in UnitsTagged(EntryAt(i), {"constant"}) : UnitSatisfied(EntryAt(i), u)

\* an entry has passed the filter on the lemma of a word of the sentence
C7_Witness ==
  /\ pc = "filtered"
  /\ sentence = join(<<W.knew, W.Jack>>)
  /\ In(E_know_jack.id, potential_matches)

\* C8: every word of every multiple word constant of a potential match is
\* individually satisfied; the sentence "want" alone does not make "want for
\* nothing" a potential match.
C8_MultiWordAllWords ==
  pc = "filtered" =>
    /\ \A k \in 1..Len(potential_matches) :
         \A u \in UnitsTagged(EntryAt(potential_matches[k]), {"constant"}) :
            Len(split(EntryAt(potential_matches[k]).runs[u])) > 1
              => UnitSatisfied(EntryAt(potential_matches[k]), u)
    /\ sentence = W.want => ~In(E_want_for_nothing.id, potential_matches)

\* the filter has run on the sentence "want"
C8_Witness ==
  /\ pc = "filtered"
  /\ sentence = W.want
  /\ ~In(E_want_for_nothing.id, potential_matches)

\* the number of words of the constants of an entry
ConstantWordCount(entry) ==
  Len(SelectSeq(WordsFrom(entry, 1), LAMBDA w : w.tag = "constant"))

\* the entry has an optional unit, and no word of its optional units has an
\* occurrence
OptionalAbsent(entry) ==
  /\ UnitsTagged(entry, Optional) # {}
  /\ LET ws == WordsFrom(entry, 1)
     IN \A k \in 1..Len(ws) : ws[k].tag \in Optional => ws[k].spans = <<>>

\* C9: when no optional unit of an examined entry has an occurrence and the
\* words of its constants occur in order and within the locality threshold,
\* the entry is reported on its constants alone.
C9_OptionalAbsent ==
  Examined =>
    \A k \in 1..Len(potential_matches) :
       (/\ OptionalAbsent(EntryAt(potential_matches[k]))
        /\ SomeCombinationQualifies(EntryAt(potential_matches[k])))
       => \E m \in 1..Len(lc) :
             /\ lc[m].entry = potential_matches[k]
             /\ lc[m].count = ConstantWordCount(EntryAt(potential_matches[k]))

\* the sentence of the scenario
AccustomedSentence ==
  join(<<W.The, W.children, W.are, W.accustomed, W.to, W.eating, W.late, W.in, W.the,
         W.evening_dot>>)

\* the span covers an occurrence of the phrase in the text
Covers(span, phrase, text) ==
  \E p \in 0..(Len(text) - Len(phrase)) :
     /\ SubSeq(text, p + 1, p + Len(phrase)) = phrase
     /\ span[1] <= p
     /\ p + Len(phrase) <= span[2]

\* C10: for the sentence "The children are accustomed to eating late in the
\* evening." the pipeline reports the entry of "accustomed to" with a word
\* count of at least 2 and a span that covers "accustomed to".
C10_AccustomedTo ==
  (pc = "ranked" /\ sentence = AccustomedSentence) =>
    \E k \in 1..Len(lc) :
       /\ lc[k].entry = E_accustomed_to.id
       /\ lc[k].count >= 2
       /\ Covers(lc[k].span, join(<<W.accustomed, W.to>>), sentence)

\* the pipeline has run on the sentence of the scenario
C10_Witness == pc = "ranked" /\ sentence = AccustomedSentence /\ lc # <<>>

\* ------------------------------------------------------------------------
\* Properties of get_patterns
\* ------------------------------------------------------------------------

\* the units of the entry get_patterns was given
Units == 1..Len(given_alt)

\* the units of the given tags
UnitsOf(tags) == {k \in Units : given_alt[k] \in tags}

\* the texts of the units of S, in the order of the entry
RunsOf(S) ==
  LET F[k \in 0..Len(given_runs)] ==
        IF k = 0 THEN <<>>
        ELSE IF k \in S THEN Append(F[k - 1], given_runs[k]) ELSE F[k - 1]
  IN F[Len(given_runs)]

\* the word sequence of the units of S
Spelled(S) == join(RunsOf(S))

\* the selections of units that hold every constant
Selections == {S \in SUBSET Units : UnitsOf({"constant"}) \subseteq S}

\* the selections a pattern stands for: every constant, any of the articles
\* and o-constants, at most one verb, no variable
Combos ==
  {S \in Selections :
     /\ S \cap UnitsOf({"variable"}) = {}
     /\ Cardinality(S \cap UnitsOf({"verb"})) <= 1}

\* get_patterns has returned
Generated == pc = "patterns"

\* C11: every pattern of get_patterns is the word sequence of a selection of
\* the units of the entry in their original order that holds every constant.
C11_OrderPreserving ==
  Generated =>
    \A k \in 1..Len(patterns_list) : \E S \in Selections : patterns_list[k] = Spelled(S)

\* an optional unit stands before a constant, and a pattern holds both
C11_Witness ==
  /\ Generated
  /\ \E i \in Units : \E j \in Units :
        /\ i < j
        /\ given_alt[i] \in {"article", "o-constant", "verb"}
        /\ given_alt[j] = "constant"
        /\ given_runs[i] # given_runs[j]
        /\ In(Spelled({i} \cup UnitsOf({"constant"})), patterns_list)

\* C12: get_patterns returns exactly the word sequences of the combinations
\* of all constants with any subset of the articles and o-constants and with
\* no verb or one verb, each sequence once.
C12_PatternCompleteness ==
  Generated =>
    /\ {patterns_list[k] : k \in 1..Len(patterns_list)} = {Spelled(S) : S \in Combos}
    /\ \A i \in 1..Len(patterns_list) : \A j \in 1..Len(patterns_list) :
          patterns_list[i] = patterns_list[j] => i = j

\* C13: every pattern is the word sequence of a selection of units with at
\* most one verb unit.
C13_OneVerb ==
  Generated =>
    \A k \in 1..Len(patterns_list) :
       \E S \in SUBSET Units :
          /\ Cardinality(S \cap UnitsOf({"verb"})) <= 1
          /\ patterns_list[k] = Spelled(S)

\* C14: every pattern is the word sequence of a selection of units that
\* holds no variable unit.
C14_NoVariable ==
  Generated =>
    \A k \in 1..Len(patterns_list) :
       \E S \in SUBSET (Units \ UnitsOf({"variable"})) : patterns_list[k] = Spelled(S)

\* C15: the list get_patterns returns is not empty and holds the word
\* sequence of the constants alone.
C15_ConstantsOnly ==
  Generated =>
    /\ patterns_list # <<>>
    /\ In(Spelled(UnitsOf({"constant"})), patterns_list)

\* ------------------------------------------------------------------------
\* Properties of find_idioms
\* ------------------------------------------------------------------------

\* find_idioms has returned
Returned == pc \in {"returned", "repeated"}

\* the (entry, span) pair of the match k of lc
PairOf(k) == [entry |-> lc[k].entry, span |-> lc[k].span]

\* the matches of lc that find_idioms keeps: those among the first limit that
\* differ from the match before them
KeptOf == {k \in 1..Len(lc) : k <= limit /\ (k = 1 \/ PairOf(k) # PairOf(k - 1))}

\* the keys of a dict of the output under the flags
Keys ==
  (IF flags.html THEN {"phrase_html", "definition_html"} ELSE {"phrase", "definition"})
    \cup (IF flags.span THEN {"span"} ELSE {})
    \cup (IF flags.entry_range THEN {"entry_range"} ELSE {})
    \cup (IF flags.entry_id THEN {"entry_id"} ELSE {})

\* the value of a key for the pair m
ValueOf(key, m) ==
  CASE key = "span" -> m.span
    [] key = "entry_id" -> EntryAt(m.entry).id
    [] key = "entry_range" -> EntryAt(m.entry).range
    [] key = "phrase" -> EntryAt(m.entry).phrase
    [] key = "phrase_html" -> EntryAt(m.entry).phrase_html
    [] key = "definition" -> EntryAt(m.entry).definition
    [] key = "definition_html" -> EntryAt(m.entry).definition_html

\* C16: find_idioms keeps the first limit matches of lc (limit being a
\* count), drops every kept match that equals the one before it in entry and
\* span, and projects the rest on the requested fields; it returns at most
\* limit records, and no two adjacent records are of the same entry and span.
C16_LimitDedupeProject ==
  Returned =>
    /\ Len(idioms) <= limit
    /\ Len(idioms) = Len(kept)
    /\ Len(kept) = Cardinality(KeptOf)
    /\ \A k \in 1..Len(kept) :
          /\ \E j \in KeptOf :
                kept[k] = PairOf(j) /\ Cardinality({i \in KeptOf : i < j}) = k - 1
          /\ DOMAIN idioms[k] = Keys
          /\ \A key \in Keys : idioms[k][key] = ValueOf(key, kept[k])
    /\ \A k \in 1..(Len(kept) - 1) : kept[k] # kept[k + 1]

\* find_idioms has cut the ranked list and returned records with spans
C16_Witness ==
  /\ Returned
  /\ limit >= 1
  /\ Len(lc) > limit
  /\ flags.span
  /\ Len(idioms) = limit

\* some word of some constant of every entry has no occurrence in the
\* sentence nor in the lemmatized sentence
NoIdiomaticContent ==
  \A i \in EntryIds :
     \E u \in UnitsTagged(EntryAt(i), {"constant"}) :
        \E c \in 1..Len(split(EntryAt(i).runs[u])) :
           ~Occurs(EntryAt(i).word_forms[u].v[c])

\* C17: when no entry has all the words of its constants in the sentence,
\* the empty sentence included, find_idioms returns the empty list and
\* raises nothing.
C17_NothingQualifies ==
  (Returned /\ NoIdiomaticContent) => (idioms = <<>> /\ ~raised)

\* an entry has passed the filter and the matcher has rejected it
C17_Witness ==
  /\ Returned
  /\ NoIdiomaticContent
  /\ potential_matches # <<>>
  /\ idioms = <<>>

Defective(entry) ==
  \E u \in UnitsTagged(entry, Located) :
     \/ Len(entry.word_forms[u].v) < Len(split(entry.runs[u]))
     \/ \E c \in 1..Len(entry.word_forms[u].v) : entry.word_forms[u].v[c] = <<>>

\* the entries of the dictionary that are sound
Sound == {i \in EntryIds : ~Defective(EntryAt(i))}

\* C20: a query over a dictionary with a defective entry raises nothing,
\* reports no defective entry, and reports every sound entry that passes the
\* filter and the matcher.
C20_DefectiveSkipped ==
  pc = "returned" =>
    /\ ~raised
    /\ \A k \in 1..Len(lc) : lc[k].entry \in Sound
    /\ \A i \in Sound :
          (is_potential_match(EntryAt(i), sentence) /\ entry_matches(EntryAt(i), sentence) # <<>>)
            => Reported(i)
\* ------------------------------------------------------------------------
\* Queries that hold possessive tokens, over entries whose forms are the
\* stem of such a token
\* ------------------------------------------------------------------------

\* one and only
E_one_and_only ==
  Entry(0, <<"constant">>, <<join(<<W.one, W.and, W.only>>)>>,
        <<AsList(<< <<W.one, W.ones>>, F_and, <<W.only>> >>)>>)

\* old woman
E_old_woman ==
  Entry(1, <<"constant">>, <<join(<<W.old, W.woman>>)>>,
        <<AsList(<< <<W.old>>, <<W.woman, W.women>> >>)>>)

PossessiveDictionary == <<E_one_and_only, E_old_woman>>

VocabPossessive == {W.one, W.one_s, W.and, W.only, W.old, W.women_s}

PossessiveSentences == {join(ws) : ws \in WordLists(VocabPossessive, MaxLen)}

InitPossessive ==
  /\ sentence \in PossessiveSentences
  /\ pc = "start"
  /\ potential_matches = <<>>
  /\ lc = <<>>
  /\ data_dictionary = PossessiveDictionary
  /\ NoFacade
  /\ NoPatterns
  /\ NoTools

SpecPossessive == InitPossessive /\ [][Next]_vars

\* the span [s[1], s[2]) of text lies in a token that goes on, before or
\* after the span, with an apostrophe
InsidePossessive(text, s) ==
  \/ s[1] >= 1 /\ text[s[1]] = "'"
  \/ s[2] < Len(text) /\ text[s[2] + 1] = "'"

\* C21: word-boundary matching treats an internal apostrophe as a word
\* character: once the coarse filter has run, no form of a candidate entry
\* is found by the word-boundary pattern at a span inside a possessive or
\* contracted token such as "one's", and look_closer reports no matched word
\* of the raw sentence at such a span
C21_ApostropheIsWordChar ==
  /\ pc = "filtered" =>
       \A c \in 1..Len(potential_matches) :
         LET wf == data_dictionary[potential_matches[c] + 1].word_forms
         IN \A u \in 1..Len(wf) :
              wf[u].list =>
                \A w \in 1..Len(wf[u].v) :
                  LET spans == finditer(wf[u].v[w], sentence)
                  IN \A k \in 1..Len(spans) : ~InsidePossessive(sentence, spans[k])
  /\ pc \in {"ranked", "examined"} =>
       \A k \in 1..Len(lc) :
         \A j \in 1..Len(lc[k].found.span) :
           lc[k].found.text[j] = "raw" => ~InsidePossessive(sentence, lc[k].found.span[j])

\* ------------------------------------------------------------------------
\* Claims on what look_closer records and reports
\* ------------------------------------------------------------------------

\* the words of the entry recorded under the text word
WordsNamed(entry, word) ==
  {j \in 1..Len(WordsFrom(entry, 1)) : WordsFrom(entry, 1)[j].word = word}

\* C22: for each unit word, look_closer scans the lemmatized sentence only
\* when the scan of the raw sentence found no match: every matched word of a
\* reported match is an occurrence of a word of the entry in the raw
\* sentence or, only if that word has none there, an occurrence in the
\* lemmatized string, with a span that is an offset into that string
C22_LemmaOnlyWhenRawEmpty ==
  Examined =>
    \A k \in 1..Len(lc) :
      LET found == lc[k].found
          ws == WordsFrom(EntryAt(lc[k].entry), 1)
      IN \A j \in 1..Len(found.span) :
           \E w \in WordsNamed(EntryAt(lc[k].entry), found.match[j]) :
             /\ In(found.span[j], ws[w].spans)
             /\ found.text[j] = ws[w].text

\* a reported match holds a word found in the sentence and a word found only
\* in the lemmatized string, at a span that is no occurrence in the sentence
C22_Witness ==
  /\ Examined
  /\ \E k \in 1..Len(lc) :
       /\ \E j \in 1..Len(lc[k].found.text) : lc[k].found.text[j] = "raw"
       /\ \E j \in 1..Len(lc[k].found.text) :
            /\ lc[k].found.text[j] = "lemma"
            /\ slice(sentence, lc[k].found.span[j][1], lc[k].found.span[j][2])
                 # slice(sentence_lemma_string(sentence),
                         lc[k].found.span[j][1], lc[k].found.span[j][2])

\* the dicts of the record of an entry that qualify
QualifyingDicts(entry) ==
  {r \in 1..Len(build_record(entry, sentence)) :
     qualifies(build_record(entry, sentence)[r], entry, sentence)}

\* the number of items of the list equal to x
CountOf(x, list) == Cardinality({k \in 1..Len(list) : list[k] = x})

\* C23: look_closer reports at most one triple per candidate entry, built
\* from the first dict of the record that qualifies: (entry, number of
\* matched words, (start offset of the first matched word, end offset of the
\* last matched word))
C23_OneTriplePerEntry ==
  Examined =>
    /\ \A i \in EntryIds :
         Cardinality({k \in 1..Len(lc) : lc[k].entry = i}) <= CountOf(i, potential_matches)
    /\ \A k \in 1..Len(lc) :
         LET entry == EntryAt(lc[k].entry)
             q == QualifyingDicts(entry)
         IN /\ q # {}
            /\ LET r == build_record(entry, sentence)[CHOOSE x \in q : \A y \in q : x <= y]
               IN /\ lc[k].count = Len(r.match)
                  /\ lc[k].span = <<r.span[1][1], r.span[Len(r.span)][2]>>

\* an entry with several qualifying dicts and at least two matched words is
\* reported
C23_Witness ==
  /\ Examined
  /\ \E k \in 1..Len(lc) :
       /\ Cardinality(QualifyingDicts(EntryAt(lc[k].entry))) >= 2
       /\ lc[k].count >= 2
       /\ lc[k].span[1] > 0

\* the words between the matched words j and j + 1 of a dict, counted in the
\* string that the span of word j is an offset into
GapInOwnText(found, j) ==
  Len(split(slice(TextOf(found.text[j]), found.span[j][2], found.span[j + 1][1])))

\* C28: for every pair of consecutive matched words, look_closer counts the
\* intervening words in the text that the two spans are offsets into: the
\* two spans of a pair are offsets into the same string (both the sentence
\* or both the lemmatized string), and the distance look_closer computes for
\* the pair is the number of words between them in that string
C28_DistanceInOwnText ==
  Examined =>
    \A k \in 1..Len(lc) :
      \A j \in 1..(Len(lc[k].found.span) - 1) :
        /\ lc[k].found.text[j] = lc[k].found.text[j + 1]
        /\ gaps(lc[k].found, sentence)[j] = GapInOwnText(lc[k].found, j)

\* ------------------------------------------------------------------------
\* find_idioms under every choice of the output flags
\* ------------------------------------------------------------------------

\* every value of the arguments html, span, entry_range and entry_id
AllFlags == [html : BOOLEAN, span : BOOLEAN, entry_range : BOOLEAN, entry_id : BOOLEAN]

InitFlags ==
  /\ sentence \in QuerySentences
  /\ limit \in Limits
  /\ flags \in AllFlags
  /\ pc = "idle"
  /\ potential_matches = <<>>
  /\ lc = <<>>
  /\ kept = <<>>
  /\ idioms = <<>>
  /\ first_idioms = <<>>
  /\ queries = {}
  /\ raised = FALSE
  /\ data_dictionary = data
  /\ NoPatterns
  /\ NoTools

NextFlags == CallFindIdioms

SpecFlags == InitFlags /\ [][NextFlags]_vars

\* the groups of fields of a record of the output
Groups == {"plain", "html", "span", "entry_range", "entry_id"}

\* the keys of a group
FieldsOfGroup(g) ==
  CASE g = "plain" -> {"phrase", "definition"}
    [] g = "html" -> {"phrase_html", "definition_html"}
    [] OTHER -> {g}

\* the keys of the groups S
FieldsOf(S) == UNION {FieldsOfGroup(g) : g \in S}

\* some choice of the flags makes find_idioms build, from the matches it
\* kept for the sentence and the limit of the call, records with the fields
\* of the groups S (the flags are read by the projection only)
Selectable(S) ==
  \E fl \in AllFlags :
     LET out == output_of(kept, fl)
     IN \A k \in 1..Len(out) : DOMAIN out[k] = FieldsOf(S)

\* span, entry_range and entry_id are fields of the record iff their flag
\* is set
OptionalFieldsByFlag(record) ==
  /\ "span" \in DOMAIN record <=> flags.span
  /\ "entry_range" \in DOMAIN record <=> flags.entry_range
  /\ "entry_id" \in DOMAIN record <=> flags.entry_id

\* the statement of C24 as written: every subset of the five groups of
\* fields can be selected, and span, entry_range and entry_id are present
\* iff their flag is set
C24_AnySubset ==
  pc = "returned" /\ idioms # <<>> =>
    /\ \A S \in SUBSET Groups : Selectable(S)
    /\ \A k \in 1..Len(idioms) : OptionalFieldsByFlag(idioms[k])

\* C24 (amended): every record returned by find_idioms holds exactly one of
\* the plain-text and the HTML phrase+definition, the HTML one iff html is
\* set, and span, entry_range and entry_id iff their flag is set; every
\* subset of the five groups that holds exactly one of the plain-text and the
\* HTML group can be selected
C24_FieldsByFlags ==
  pc = "returned" =>
    /\ \A k \in 1..Len(idioms) :
         /\ DOMAIN idioms[k] \subseteq FieldsOf(Groups)
         /\ FieldsOfGroup("html") \subseteq DOMAIN idioms[k] <=> flags.html
         /\ FieldsOfGroup("html") \cap DOMAIN idioms[k] # {} <=> flags.html
         /\ FieldsOfGroup("plain") \subseteq DOMAIN idioms[k] <=> ~flags.html
         /\ FieldsOfGroup("plain") \cap DOMAIN idioms[k] # {} <=> ~flags.html
         /\ OptionalFieldsByFlag(idioms[k])
    /\ idioms # <<>> =>
         \A S \in SUBSET Groups :
            Cardinality(S \cap {"plain", "html"}) = 1 => Selectable(S)

\* records were returned under flags that ask for the HTML fields, the span
\* and the id but not the range
C24_Witness ==
  /\ pc = "returned"
  /\ Len(idioms) >= 2
  /\ flags.html /\ flags.span /\ ~flags.entry_range /\ flags.entry_id
  /\ DOMAIN idioms[1] = {"phrase_html", "definition_html", "span", "entry_id"}

\* ------------------------------------------------------------------------
\* The coarse filter and the order of the words of the sentence
\* ------------------------------------------------------------------------

\* the list ws with the words of index i and j exchanged
Exchanged(ws, i, j) ==
  [k \in 1..Len(ws) |-> IF k = i THEN ws[j] ELSE IF k = j THEN ws[i] ELSE ws[k]]

\* the lists a list of words is compared with: the reversed list and every
\* list with two words exchanged. Every reordering is a chain of exchanges,
\* and the lists of at most MaxLen words of a vocabulary hold, with a list,
\* every list of such a chain
Reorderings(ws) ==
  {reversed(ws)} \cup {Exchanged(ws, p[1], p[2]) : p \in {q \in (1..Len(ws)) \X (1..Len(ws)) : q[1] < q[2]}}

\* the entries of a list of potential matches
EntriesOf(pm) == {pm[k] : k \in 1..Len(pm)}

\* C29: the coarse filter is order-agnostic: get_potential_matches returns
\* the same set of entries for the sentence and for every sentence made of
\* the same whitespace-separated tokens in a different order
C29_OrderAgnostic ==
  pc = "filtered" =>
    \A ws \in Reorderings(split(sentence)) :
       EntriesOf(get_potential_matches(join(ws))) = EntriesOf(potential_matches)

\* "bail out" passes the filter with its text in the sentence, and a
\* reordering of the sentence does not hold that text
C29_Witness ==
  /\ pc = "filtered"
  /\ 4 \in EntriesOf(potential_matches)
  /\ contains(E_bail_out.runs[1], sentence)
  /\ \E ws \in Reorderings(split(sentence)) : ~contains(E_bail_out.runs[1], join(ws))

\* ------------------------------------------------------------------------
\* FF_manualoverride.py: entries of phrases.json replaced by hand-written ones
\* ------------------------------------------------------------------------

\* most entries of an enumerated phrases.json
MaxEntries == 3

\* an entry of phrases.json at this stage of the build. "made" notes that
\* manual_override built the entry, which the code does not keep.
BuildEntry(range, phrase, phrase_html, definition, definition_html, alt, runs, multiple, duplicate, made) ==
  [range |-> range, phrase |-> phrase, phrase_html |-> phrase_html,
   definition |-> definition, definition_html |-> definition_html,
   alt |-> alt, runs |-> runs, multiple |-> multiple, duplicate |-> duplicate,
   made |-> made]

\* manual_override with the third rule keyed on the range alone
manual_override_by_range(dictionary_entry) ==
  IF dictionary_entry.range = <<82671, 82681>>
  THEN << BuildEntry(dictionary_entry.range, "*a go at someone",
                     "<p><strong>*</strong>a <strong>go at </strong>someone</p>",
                     dictionary_entry.definition, dictionary_entry.definition_html,
                     <<"asterisk", "article", "constant", "variable">>,
                     <<"*", "a", "go at", "someone">>,
                     dictionary_entry.multiple, dictionary_entry.duplicate, TRUE),
          BuildEntry(dictionary_entry.range, "*a stab at someone",
                     "<p><strong>*</strong>a <strong>stab at </strong>someone </p>",
                     dictionary_entry.definition, dictionary_entry.definition_html,
                     <<"asterisk", "article", "constant", "variable">>,
                     <<"*", "a", "stab at", "someone">>,
                     dictionary_entry.multiple, dictionary_entry.duplicate, TRUE) >>
  ELSE <<>>

\* the entries that replace dictionary_entry, or the empty list; the
\* typographic apostrophe of the source is written '
manual_override(dictionary_entry) ==
  IF dictionary_entry.range = <<41035, 41037>>
  THEN << BuildEntry(dictionary_entry.range, "It's a jungle out there.",
                     "<p><strong>It's a jungle out there.</strong></p>",
                     "The real world is severe.; It's hard to get by in everyday life. _ A: Gee, people are so rude in this town. B: Yup, it's a jungle out there.",
                     "<p>The real world is severe.; It's hard to get by in everyday life. <br>_ <em>A: Gee, people are so rude in this town. B: Yup, it's a jungle out there.</em></p>",
                     <<"constant">>, <<"it's a jungle out there">>,
                     dictionary_entry.multiple, dictionary_entry.duplicate, TRUE) >>
  ELSE IF /\ dictionary_entry.range = <<26246, 26255>>
          /\ dictionary_entry.phrase = "and for want of a horse the man was lost."
  THEN << BuildEntry(dictionary_entry.range, "for want of a horse the man was lost.",
                     "<p><strong>for want of a horse the man was lost.</strong></p>",
                     dictionary_entry.definition, dictionary_entry.definition_html,
                     dictionary_entry.alt,
                     <<"for want of a", "horse the man was lost.">>,
                     dictionary_entry.multiple, dictionary_entry.duplicate, TRUE) >>
  ELSE IF /\ dictionary_entry.range = <<82671, 82681>>
          /\ dictionary_entry.phrase = "*a go at someone *a stab at someone"
  THEN << BuildEntry(dictionary_entry.range, "*a go at someone",
                     "<p><strong>*</strong>a <strong>go at </strong>someone</p>",
                     dictionary_entry.definition, dictionary_entry.definition_html,
                     <<"asterisk", "article", "constant", "variable">>,
                     <<"*", "a", "go at", "someone">>,
                     dictionary_entry.multiple, dictionary_entry.duplicate, TRUE),
          BuildEntry(dictionary_entry.range, "*a stab at someone",
                     "<p><strong>*</strong>a <strong>stab at </strong>someone </p>",
                     dictionary_entry.definition, dictionary_entry.definition_html,
                     <<"asterisk", "article", "constant", "variable">>,
                     <<"*", "a", "stab at", "someone">>,
                     dictionary_entry.multiple, dictionary_entry.duplicate, TRUE) >>
  ELSE IF /\ dictionary_entry.range = <<90790, 90794>>
          /\ dictionary_entry.phrase = "*out of someone's way; *out of the road"
  THEN << BuildEntry(dictionary_entry.range, "*out of someone's way",
                     "<p><strong>*out of </strong>someone's <strong>way</p>",
                     dictionary_entry.definition, dictionary_entry.definition_html,
                     <<"constant", "variable", "constant">>,
                     <<"*out of", "someone's", "way">>,
                     dictionary_entry.multiple, dictionary_entry.duplicate, TRUE),
          BuildEntry(dictionary_entry.range, "*out of the road",
                     "<p>*out</strong> <strong>of the road</strong></p>",
                     dictionary_entry.definition, dictionary_entry.definition_html,
                     <<"constant", "constant">>, <<"*out", "of the road">>,
                     dictionary_entry.multiple, dictionary_entry.duplicate, TRUE) >>
  ELSE <<>>

\* del list[k]; then list.insert(k + j, new[j]) for every j, k counted from 0
replaced_at(list, k, new) == SubSeq(list, 1, k) \o new \o SubSeq(list, k + 2, Len(list))

\* the entries E_tidyup.py leaves in phrases.json for the four heads that
\* manual_override names, for heads of the same ranges that it does not
\* name, and for one other head
SourceEntry(range, phrase) ==
  BuildEntry(range, phrase, <<"phrase_html", phrase>>, <<"definition", phrase>>,
             <<"definition_html", phrase>>, <<"constant">>, <<phrase>>, FALSE, FALSE, FALSE)

SourceEntries ==
  { SourceEntry(<<41035, 41037>>, "It's a jungle out there"),
    SourceEntry(<<26246, 26255>>, "and for want of a horse the man was lost."),
    SourceEntry(<<26246, 26255>>, "For want of a nail the shoe was lost;"),
    SourceEntry(<<82671, 82681>>, "*a go at someone *a stab at someone"),
    SourceEntry(<<82671, 82681>>, "*a stab at someone"),
    SourceEntry(<<90790, 90794>>, "*out of someone's way; *out of the road"),
    SourceEntry(<<0, 3>>, "an A for effort") }

InitOverride ==
  /\ phrases_json \in UNION {[1..n -> SourceEntries] : n \in 0..MaxEntries}
  /\ data_dictionary = phrases_json
  /\ index = 0
  /\ pc = "loaded"
  /\ sentence = <<>>
  /\ potential_matches = <<>>
  /\ lc = <<>>
  /\ NoFacade
  /\ NoPatterns
  /\ NoValidation
  /\ NoBuild

\* one turn of "for index, entry in enumerate(data["dictionary"])": the list
\* iterator yields the item at its position in the list as it is now. An
\* override lengthens the list by a bounded amount.
Iterate ==
  /\ pc = "loaded"
  /\ index < Len(data_dictionary)
  /\ Len(data_dictionary) <= 2 * MaxEntries
  /\ \E new_dicts \in {manual_override(data_dictionary[index + 1])} :
        data_dictionary' = IF new_dicts # <<>>
                           THEN replaced_at(data_dictionary, index, new_dicts)
                           ELSE data_dictionary
  /\ index' = index + 1
  /\ UNCHANGED <<sentence, pc, potential_matches, lc, facade_vars, pattern_vars, build_vars, phrases_json,
                 validation_files, validation_run>>

\* the iterator is past the end of the list: the loop ends and the file is
\* overwritten
WriteFile ==
  /\ pc = "loaded"
  /\ index >= Len(data_dictionary)
  /\ phrases_json' = data_dictionary
  /\ pc' = "written"
  /\ UNCHANGED <<sentence, potential_matches, lc, data_dictionary, facade_vars, pattern_vars, build_vars,
                 index, validation_files, validation_run>>

NextOverride == Iterate \/ WriteFile

\* the script runs on: a turn of the loop that can be taken is taken
SpecOverride == InitOverride /\ [][NextOverride]_vars /\ WF_vars(NextOverride)

RECURSIVE Overridden(_)
\* every entry of the list that manual_override replaces, replaced where it
\* stands
Overridden(list) ==
  IF list = <<>> THEN <<>>
  ELSE (IF manual_override(list[1]) # <<>> THEN manual_override(list[1]) ELSE <<list[1]>>)
       \o Overridden(Tail(list))

\* C30: the pass of FF_manualoverride over the dictionary terminates for
\* every dictionary: the file is written in the end, it holds every entry of
\* the dictionary with each overridden entry replaced at its own position by
\* its replacement entries, and no entry produced by an override is
\* overridden when the loop comes to it
C30_OverrideTerminates ==
  /\ <>(pc = "written")
  /\ [][pc' = "written" => phrases_json' = Overridden(phrases_json)]_vars
  /\ [](pc = "loaded" /\ index < Len(data_dictionary) /\ data_dictionary[index + 1].made
          => manual_override(data_dictionary[index + 1]) = <<>>)

\* the loop came to the second entry produced by an override and went on to
\* the entry after it, which it overrode too
C30_Witness ==
  /\ pc = "written"
  /\ Len(phrases_json) = 5
  /\ phrases_json[2].made /\ phrases_json[2].phrase = "*a stab at someone"
  /\ phrases_json[3].made /\ phrases_json[3].phrase = "*out of someone's way"

\* ---------------------------------------------------------------------
\* M_validate.py: the bulk validation of the matcher, one part of the
\* examples per run, with the progress kept in a file between the runs
\* ---------------------------------------------------------------------

MaxExamples == 19

MaxSentences == 1

MaxDays == 1

MaxInterruptions == 1

num_parts == 18

\* get_potential_matches(ex.lower(), sentence_lemma)
arguments_to_get_potential_matches == 2

\* the contract of the coarse filter: (sentence, sentence_lemma_tokens)
contract_parameters == 2

\* an example of examples.pickle, [range, [sentence, ...]], here the k-th with
\* s sentences
Example(k, s) == [range |-> <<k, k>>, sentences |-> [j \in 1..s |-> <<"sentence", k, j>>]]

\* the lists examples.pickle may hold: at least one example per part (with
\* fewer, part_length is 0 and range() raises ValueError), each with a sentence
\* or more (K_getexamples.py appends an entry only if it found examples)
ExampleLists ==
  { [k \in 1..n |-> Example(k, s)] : n \in num_parts..MaxExamples, s \in 1..MaxSentences }

part_length(list) == Len(list) \div num_parts

\* [examples[i : i + part_length] for i in range(0, len(examples), part_length)],
\* for a part_length above 0
parts(list) ==
  [p \in 1..((Len(list) + part_length(list) - 1) \div part_length(list)) |->
     slice(list, (p - 1) * part_length(list), p * part_length(list))]

\* the dictionary appended for the j-th sentence of an example; its other
\* keys are computed from the matcher's answer
result_of(example, j) == [example |-> example.sentences[j], example_range |-> example.range]

\* the loop over the sentences of an example: each turn calls the matcher,
\* and Python raises TypeError if the arguments are not as many as the
\* parameters of the function imported
process_example(example, parameters) ==
  IF example.sentences # <<>> /\ arguments_to_get_potential_matches # parameters
  THEN [raised |-> TRUE, results |-> <<>>]
  ELSE [raised |-> FALSE,
        results |-> [j \in 1..Len(example.sentences) |-> result_of(example, j)]]

\* list(pool.imap(process_example, part)): the results in the order of the
\* part, or the exception of a worker
imap(part, parameters) ==
  [raised |-> \E k \in 1..Len(part) : process_example(part[k], parameters).raised,
   results |-> [k \in 1..Len(part) |-> process_example(part[k], parameters).results]]

RECURSIVE extended(_, _)
\* for res in results: output.extend(res)
extended(list, results) ==
  IF results = <<>> THEN list ELSE extended(list \o results[1], Tail(results))

\* no run of the script is under way
Stopped == {"idle", "interrupted", "ValueError", "EOFError", "TypeError", "reported", "completed"}

\* a run is between two of its statements
Running == {"started", "processed", "output_open", "output_saved", "progress_open"}

\* the matcher is the one of L_algorithm.py, or one with the parameters of
\* the contract, which are those the script passes
InitValidate ==
  /\ examples \in ExampleLists
  /\ matcher_parameters \in {parameters_of_get_potential_matches, contract_parameters}
  /\ today = 0
  /\ validation_data = <<>>
  /\ progress_pickle = NoFile(0)
  /\ file_name = 0
  /\ run_output = <<>>
  /\ validation_progress = 0
  /\ processed = <<>>
  /\ interruptions = 0
  /\ pc = "idle"
  /\ sentence = <<>>
  /\ potential_matches = <<>>
  /\ lc = <<>>
  /\ data_dictionary = data
  /\ NoFacade
  /\ NoPatterns
  /\ NoOverride
  /\ NoBuild

\* lines 173 to 197: the script is started, splits the examples, and reads
\* the output file of today and the progress file; pickle.load raises
\* EOFError on an empty file
StartRun ==
  /\ pc \in Stopped
  /\ file_name' = today
  /\ processed' = <<>>
  /\ IF part_length(examples) = 0
     THEN pc' = "ValueError" /\ UNCHANGED <<run_output, validation_progress>>
     ELSE IF today \in DOMAIN validation_data /\ ~validation_data[today].written
     THEN pc' = "EOFError" /\ UNCHANGED <<run_output, validation_progress>>
     ELSE IF progress_pickle.exists /\ ~progress_pickle.written
     THEN /\ pc' = "EOFError"
          /\ run_output' = IF today \in DOMAIN validation_data
                           THEN validation_data[today].content ELSE <<>>
          /\ UNCHANGED validation_progress
     ELSE /\ run_output' = IF today \in DOMAIN validation_data
                           THEN validation_data[today].content ELSE <<>>
          /\ validation_progress' = progress_pickle.content
          /\ pc' = IF progress_pickle.content > Len(parts(examples)) - 1
                   THEN "reported" ELSE "started"
  /\ UNCHANGED <<sentence, potential_matches, lc, data_dictionary, facade_vars, pattern_vars, build_vars,
                 override_vars, validation_files, interruptions>>

\* lines 203 to 216: the pool processes the part and the results are
\* appended to output, unless a worker raised
Process ==
  /\ pc = "started"
  /\ \E res \in {imap(parts(examples)[validation_progress + 1], matcher_parameters)} :
       IF res.raised
       THEN pc' = "TypeError" /\ UNCHANGED <<run_output, processed>>
       ELSE /\ run_output' = extended(run_output, res.results)
            /\ processed' = parts(examples)[validation_progress + 1]
            /\ pc' = "processed"
  /\ UNCHANGED <<sentence, potential_matches, lc, data_dictionary, facade_vars, pattern_vars, build_vars,
                 override_vars, validation_files, file_name, validation_progress,
                 interruptions>>

\* line 219: open(..., "wb") creates the output file or empties it
OpenOutput ==
  /\ pc = "processed"
  /\ validation_data' = (file_name :> Truncated(<<>>)) @@ validation_data
  /\ pc' = "output_open"
  /\ UNCHANGED <<sentence, potential_matches, lc, data_dictionary, facade_vars, pattern_vars, build_vars,
                 override_vars, examples, matcher_parameters, today, progress_pickle, validation_run>>

\* line 220: pickle.dump(output, file), and the file is closed
DumpOutput ==
  /\ pc = "output_open"
  /\ validation_data' = (file_name :> Written(run_output)) @@ validation_data
  /\ pc' = "output_saved"
  /\ UNCHANGED <<sentence, potential_matches, lc, data_dictionary, facade_vars, pattern_vars, build_vars,
                 override_vars, examples, matcher_parameters, today, progress_pickle, validation_run>>

\* lines 222 and 223: the counter is increased and the progress file opened
OpenProgress ==
  /\ pc = "output_saved"
  /\ validation_progress' = validation_progress + 1
  /\ progress_pickle' = Truncated(0)
  /\ pc' = "progress_open"
  /\ UNCHANGED <<sentence, potential_matches, lc, data_dictionary, facade_vars, pattern_vars, build_vars,
                 override_vars, examples, matcher_parameters, today, validation_data, file_name, run_output,
                 processed, interruptions>>

\* line 224: pickle.dump(validation_progress, file), and the run ends
DumpProgress ==
  /\ pc = "progress_open"
  /\ progress_pickle' = Written(validation_progress)
  /\ pc' = "completed"
  /\ UNCHANGED <<sentence, potential_matches, lc, data_dictionary, facade_vars, pattern_vars, build_vars,
                 override_vars, examples, matcher_parameters, today, validation_data, validation_run>>

\* the run is stopped from outside between two statements
Interrupt ==
  /\ pc \in Running
  /\ interruptions < MaxInterruptions
  /\ interruptions' = interruptions + 1
  /\ pc' = "interrupted"
  /\ UNCHANGED <<sentence, potential_matches, lc, data_dictionary, facade_vars, pattern_vars, build_vars,
                 override_vars, validation_files, file_name, run_output, validation_progress,
                 processed>>

\* the date changes
Midnight ==
  /\ today < MaxDays
  /\ today' = today + 1
  /\ UNCHANGED <<sentence, pc, potential_matches, lc, data_dictionary, facade_vars,
                 pattern_vars, build_vars, override_vars, examples, matcher_parameters, validation_data, progress_pickle,
                 validation_run>>

\* the statements of the script
RunValidation ==
  StartRun \/ Process \/ OpenOutput \/ DumpOutput \/ OpenProgress \/ DumpProgress

NextValidate == RunValidation \/ Interrupt \/ Midnight

\* run_validation.sh starts the script again when a run has ended, and a
\* started run goes on to its next statement unless it is interrupted
SpecValidate == InitValidate /\ [][NextValidate]_vars /\ WF_vars(RunValidation)

\* the counter a run finds: 0 without a progress file
stored(file) == IF file.exists THEN file.content ELSE 0

\* C26: every run of the driver processes exactly the part whose index is the
\* stored progress counter and then stores the counter increased by one (so no
\* run ends in an exception), the stored counter never falls below a value a
\* run has read or computed, and a run that finds the counter past the last
\* part reports it, having processed no example and written no file
C26_RunAdvancesCounter ==
  /\ [](pc \notin {"ValueError", "EOFError", "TypeError"})
  /\ [](pc = "processed" => processed = parts(examples)[stored(progress_pickle) + 1])
  /\ [](pc = "completed" => /\ progress_pickle = Written(validation_progress)
                            /\ processed = parts(examples)[validation_progress])
  /\ [][progress_pickle'.written => progress_pickle'.content >= validation_progress]_vars
  /\ [][pc' = "reported" => /\ UNCHANGED <<validation_data, progress_pickle>>
                            /\ processed' = <<>>]_vars

RECURSIVE accumulated(_, _)
\* what the output files up to a day hold, one after the other
accumulated(files, day) ==
  IF day < 0 THEN <<>>
  ELSE accumulated(files, day - 1) \o (IF day \in DOMAIN files THEN files[day].content ELSE <<>>)

MaxRuns == 3

\* the two lists of an entry, or of a result
Lists(alt, runs) == [none |-> FALSE, alt |-> alt, runs |-> runs]

\* a call that raised IndexError
IndexError == [none |-> FALSE, alt |-> <<"IndexError">>, runs |-> <<>>]

\* re.sub(r"[...]", "", text)
without_chars(text, chars) == SelectSeq(text, LAMBDA c : c \notin chars)

RECURSIVE lstrip(_)
lstrip(text) == IF text # <<>> /\ text[1] = " " THEN lstrip(Tail(text)) ELSE text

\* text.strip()
strip(text) == reversed(lstrip(reversed(lstrip(text))))

\* text.startswith(prefix)
startswith(text, prefix) ==
  Len(text) >= Len(prefix) /\ SubSeq(text, 1, Len(prefix)) = prefix

RECURSIVE replace(_, _, _, _)
\* text.replace(old, new, count), count below 0 for every occurrence
replace(text, old, new, count) ==
  IF text = <<>> \/ count = 0 THEN text
  ELSE IF startswith(text, old)
       THEN new \o replace(SubSeq(text, Len(old) + 1, Len(text)), old, new, count - 1)
       ELSE <<text[1]>> \o replace(Tail(text), old, new, count)

\* list[x] with Python's negative indexes, as a position from 1
position(list, x) == IF x >= 0 THEN x + 1 ELSE Len(list) + x + 1

RECURSIVE del_each(_, _)
\* for x in indexes: del list[x], where list is the pair list of alt and
\* runs; IndexError if an index is out of range
del_each(lists, indexes) ==
  IF indexes = <<>> \/ lists = IndexError THEN lists
  ELSE IF position(lists.runs, indexes[1]) \notin 1..Len(lists.runs) THEN IndexError
  ELSE del_each(Lists(replaced_at(lists.alt, position(lists.runs, indexes[1]) - 1, <<>>),
                      replaced_at(lists.runs, position(lists.runs, indexes[1]) - 1, <<>>)),
                Tail(indexes))

\* "[()1.,!?]"
CleanupCharacters == {"(", ")", "1", ".", ",", "!", "?"}

\* step 1 of cleanup, over zip(line_alt, line_runs)
cleanup_runs(line_alt, line_runs) ==
  [i \in 1..Len(line_runs) |->
     IF i <= Len(line_alt) THEN strip(without_chars(line_runs[i], CleanupCharacters))
     ELSE line_runs[i]]

\* step 2: the indexes of the empty runs and of the daggers, last first
pop_index(line_alt, line_runs) ==
  reversed(sorted(SelectSeq([i \in 1..Min(Len(line_alt), Len(line_runs)) |-> i - 1],
                            LAMBDA i : strip(line_runs[i + 1]) = <<>> \/ line_alt[i + 1] = "dagger")))

\* steps 3 and 4, on lists that are not empty
cleanup_ends(lists) ==
  Lists(IF lists.runs[1] = W.star /\ lists.alt[1] \in {"constant", "variable"}
        THEN <<"asterisk">> \o Tail(lists.alt) ELSE lists.alt,
        IF lists.runs[Len(lists.runs)] = W.with_star
        THEN SubSeq(lists.runs, 1, Len(lists.runs) - 1) \o <<W.with>> ELSE lists.runs)

\* steps 2 to 4; line_runs[0] raises IndexError on an empty list
cleanup_popped(lists) ==
  IF lists.runs = <<>> THEN IndexError ELSE cleanup_ends(lists)

cleanup(line_alt, line_runs) ==
  cleanup_popped(del_each(Lists(line_alt, cleanup_runs(line_alt, line_runs)),
                          pop_index(line_alt, cleanup_runs(line_alt, line_runs))))

\* a run of a paragraph of clean-output.docx
Run(text, bold) == [text |-> text, bold |-> bold]

RECURSIVE captured(_, _, _)
\* the loop over the runs of the entry's lines: the runs between "*Typically:"
\* or "*Also:" and the next run with ")", once a run is captured
captured(runs, on, entry_runs) ==
  IF runs = <<>> THEN entry_runs
  ELSE IF contains(W.typ_mark, runs[1].text) \/ contains(W.also_mark, runs[1].text)
       THEN captured(Tail(runs), TRUE, entry_runs)
  ELSE IF on /\ entry_runs # <<>> /\ contains(<<")">>, runs[1].text)
       THEN captured(Tail(runs), FALSE, entry_runs)
  ELSE IF on THEN captured(Tail(runs), TRUE, Append(entry_runs, runs[1]))
  ELSE captured(Tail(runs), FALSE, entry_runs)

\* the dagger of the book, a character outside ASCII, written "+" here
Dagger == "+"

\* "[~;.)(†]"
VerbCharacters == {"~", ";", ".", ")", "(", Dagger}

\* the bold runs captured, cleaned, without duplicates and empty strings
verbs_of(runs) ==
  SelectSeq(unique([k \in 1..Len(SelectSeq(captured(runs, FALSE, <<>>), LAMBDA r : r.bold)) |->
                      strip(without_chars(SelectSeq(captured(runs, FALSE, <<>>),
                                                    LAMBDA r : r.bold)[k].text,
                                          VerbCharacters))],
                   <<>>),
            LAMBDA v : v # <<>>)

\* the asterisk removed from both lists, or from the first run
without_asterisk(wip_alt, wip_runs) ==
  IF wip_runs[1] = W.star THEN Lists(Tail(wip_alt), Tail(wip_runs))
  ELSE Lists(wip_alt, <<replace(wip_runs[1], W.star, <<>>, -1)>> \o Tail(wip_runs))

\* wip_runs[0] raises IndexError on an empty list
asterisk_verbs(wip_alt, wip_runs, runs) ==
  IF wip_runs = <<>> THEN IndexError
  ELSE IF startswith(wip_runs[1], W.star)
  THEN Lists([k \in 1..Len(verbs_of(runs)) |-> "verb"] \o without_asterisk(wip_alt, wip_runs).alt,
             verbs_of(runs) \o without_asterisk(wip_alt, wip_runs).runs)
  ELSE None

\* zip(wip_alt, wip_runs)
pairs_of(wip_alt, wip_runs) ==
  [i \in 1..Min(Len(wip_alt), Len(wip_runs)) |-> [a |-> wip_alt[i], r |-> wip_runs[i], i |-> i - 1]]

\* the condition of fix_into: a verb with "[into]" and a constant that
\* starts with "in"
into_and_in(wip_alt, wip_runs) ==
  /\ \E p \in {pairs_of(wip_alt, wip_runs)[k] : k \in 1..Len(pairs_of(wip_alt, wip_runs))} :
        p.a = "verb" /\ contains(W.into_mark, p.r)
  /\ \E p \in {pairs_of(wip_alt, wip_runs)[k] : k \in 1..Len(pairs_of(wip_alt, wip_runs))} :
        p.a = "constant" /\ startswith(p.r, W.in)

RECURSIVE into_indexes(_)
\* indexes.extend([i - 1, i]) for the verb "[into]", indexes.append(i) for a
\* verb that holds "[into]"
into_indexes(pairs) ==
  IF pairs = <<>> THEN <<>>
  ELSE (IF pairs[1].a = "verb" /\ pairs[1].r = W.into_mark THEN <<pairs[1].i - 1, pairs[1].i>>
        ELSE IF pairs[1].a = "verb" /\ contains(W.into_mark, pairs[1].r) THEN <<pairs[1].i>>
        ELSE <<>>)
       \o into_indexes(Tail(pairs))

\* 1- fix current entry
fixed(wip_alt, wip_runs) ==
  del_each(Lists(wip_alt, wip_runs),
           reversed(sorted(into_indexes(pairs_of(wip_alt, wip_runs)))))

RECURSIVE into_verbs(_, _)
\* the verbs of the duplicate: the run before the verb "[into]", and the verb
\* that holds "[into]" without it
into_verbs(pairs, wip_runs) ==
  IF pairs = <<>> THEN <<>>
  ELSE (IF pairs[1].a = "verb" /\ pairs[1].r = W.into_mark
        THEN <<wip_runs[position(wip_runs, pairs[1].i - 1)]>>
        ELSE IF pairs[1].a = "verb" /\ contains(W.into_mark, pairs[1].r)
        THEN <<strip(replace(pairs[1].r, W.into_mark, <<>>, -1))>>
        ELSE <<>>)
       \o into_verbs(Tail(pairs), wip_runs)

RECURSIVE first_in_to_into(_, _)
\* the first constant that starts with "in" gets "into" for its first "in"
first_in_to_into(alt, runs) ==
  IF alt = <<>> \/ runs = <<>> THEN runs
  ELSE IF alt[1] = "constant" /\ startswith(runs[1], W.in)
       THEN <<strip(replace(runs[1], W.in, W.in_into, 1))>> \o Tail(runs)
       ELSE <<runs[1]>> \o first_in_to_into(Tail(alt), Tail(runs))

\* the units that are not verbs
not_verbs(wip_alt, wip_runs) ==
  SelectSeq(pairs_of(wip_alt, wip_runs), LAMBDA p : p.a # "verb")

\* 2- create a duplicate entry
duplicate_alt(wip_alt, wip_runs) ==
  [k \in 1..Len(into_verbs(pairs_of(wip_alt, wip_runs), wip_runs)) |-> "verb"]
  \o [k \in 1..Len(not_verbs(wip_alt, wip_runs)) |-> not_verbs(wip_alt, wip_runs)[k].a]

duplicate(wip_alt, wip_runs) ==
  Lists(duplicate_alt(wip_alt, wip_runs),
        first_in_to_into(duplicate_alt(wip_alt, wip_runs),
                         into_verbs(pairs_of(wip_alt, wip_runs), wip_runs)
                         \o [k \in 1..Len(not_verbs(wip_alt, wip_runs)) |->
                               not_verbs(wip_alt, wip_runs)[k].r]))

\* fix_into: the fixed entry and the duplicate, <<None, None>> if the entry
\* does not meet the condition, IndexError if a del is out of range
fix_into(wip_alt, wip_runs) ==
  IF ~into_and_in(wip_alt, wip_runs) THEN <<None, None>>
  ELSE IF fixed(wip_alt, wip_runs) = IndexError THEN <<IndexError>>
  ELSE <<fixed(wip_alt, wip_runs), duplicate(wip_alt, wip_runs)>>

\* get_word_forms of the package word_forms, for the verbs of the model: the
\* forms of a word
get_word_forms(word) ==
  IF word = W.be THEN F_be
  ELSE IF word = W.become THEN F_become
  ELSE IF word = W.grow THEN Tail(F_grow)
  ELSE <<>>

\* the forms, and the word itself if it is not among them
get_forms(word) ==
  IF In(word, get_word_forms(word)) THEN get_word_forms(word)
  ELSE Append(get_word_forms(word), word)

\* the loop of J_getwordforms.py over zip(entry["alt"], entry["runs"])
word_forms_of(alt, runs) ==
  [i \in 1..Min(Len(alt), Len(runs)) |->
     IF alt[i] # "variable"
     THEN AsList([j \in 1..Len(split(runs[i])) |-> get_forms(split(runs[i])[j])])
     ELSE NA]

\* the units of an entry head as E_tidyup.py leaves them
RawUnits ==
  { [a |-> "constant", r |-> W.star],
    [a |-> "constant", r |-> W.star \o join(<<W.in, W.the, W.middle>>)],
    [a |-> "constant", r |-> join(<<W.accustomed, W.to_dot>>)],
    [a |-> "constant", r |-> join(<<W.in, W.the, W.middle>>)],
    [a |-> "constant", r |-> W.one_paren],
    [a |-> "variable", r |-> W.someone],
    [a |-> "dagger", r |-> <<Dagger>>],
    [a |-> "o-constant", r |-> W.with_star] }

RawEntries ==
  UNION { { Lists([i \in 1..n |-> units[i].a], [i \in 1..n |-> units[i].r]) :
            units \in [1..n -> RawUnits] } : n \in 1..MaxRuns }

\* the runs of the paragraph after the head: no verbs, "(*Typically: be ~;
\* grow ~.) _ ", "(*Typically: be ~; drive [into] ~; put someone [into] ~.) _ "
\* and "(*Typically: [into] ~; be ~.) _ "
Paragraphs ==
  { <<Run(<<" ">> \o W.The \o <<" ">>, FALSE), Run(W.children, FALSE)>>,
    <<Run(W.typically, FALSE), Run(<<" ">> \o W.be, TRUE), Run(W.tilde, FALSE),
      Run(W.grow, TRUE), Run(W.tilde_close, FALSE)>>,
    <<Run(W.typically, FALSE), Run(<<" ">> \o W.be, TRUE), Run(W.tilde, FALSE),
      Run(W.drive_into, TRUE), Run(W.tilde, FALSE), Run(W.put, TRUE),
      Run(<<" ">> \o W.someone \o <<" ">>, FALSE), Run(W.into_mark, TRUE),
      Run(W.tilde_close, FALSE)>>,
    <<Run(W.typically, FALSE), Run(<<" ">> \o W.into_mark, TRUE), Run(W.tilde, FALSE),
      Run(W.be, TRUE), Run(W.tilde_close, FALSE)>> }

InitBuild ==
  /\ entry_before \in RawEntries
  /\ typically \in Paragraphs
  /\ asterisk = None
  /\ built = <<>>
  /\ pc = "parsed"
  /\ sentence = <<>>
  /\ potential_matches = <<>>
  /\ lc = <<>>
  /\ data_dictionary = data
  /\ NoFacade
  /\ NoPatterns
  /\ NoOverride
  /\ NoValidation

\* the loop of F_tidyup.py, for the entry: cleanup, and the entry stored with
\* the lists returned
Cleanup ==
  /\ pc = "parsed"
  /\ \E clean \in {cleanup(entry_before.alt, entry_before.runs)} :
       IF clean = IndexError
       THEN pc' = "IndexError" /\ UNCHANGED built
       ELSE pc' = "tidied" /\ built' = <<clean>>
  /\ UNCHANGED <<sentence, potential_matches, lc, data_dictionary, facade_vars, pattern_vars,
                 override_vars, validation_files, validation_run, typically, entry_before,
                 asterisk>>

\* what the loop of G_asterisk.py appends for an entry: the fixed entry and
\* the duplicate of fix_into, or the entry with the lists of asterisk_verbs
appended(entry, with_verbs_added, fixed_and_duplicate) ==
  IF with_verbs_added = None THEN <<entry>>
  ELSE IF fixed_and_duplicate[1] = None THEN <<with_verbs_added>>
  ELSE fixed_and_duplicate

\* the loop of G_asterisk.py, for the entry
Asterisk ==
  /\ pc = "tidied"
  /\ entry_before' = built[1]
  /\ \E added \in {asterisk_verbs(built[1].alt, built[1].runs, typically)} :
       /\ asterisk' = added
       /\ \E both \in {IF added = None THEN <<None, None>>
                       ELSE fix_into(added.alt, added.runs)} :
            IF both = <<IndexError>>
            THEN pc' = "IndexError" /\ UNCHANGED built
            ELSE pc' = "asterisked" /\ built' = appended(built[1], added, both)
  /\ UNCHANGED <<sentence, potential_matches, lc, data_dictionary, facade_vars, pattern_vars,
                 override_vars, validation_files, validation_run, typically>>

\* the loop of J_getwordforms.py, for the entries made of the entry
WordForms ==
  /\ pc = "asterisked"
  /\ built' = [e \in 1..Len(built) |->
                 [alt |-> built[e].alt, runs |-> built[e].runs,
                  word_forms |-> word_forms_of(built[e].alt, built[e].runs)]]
  /\ pc' = "formed"
  /\ UNCHANGED <<sentence, potential_matches, lc, data_dictionary, facade_vars, pattern_vars,
                 override_vars, validation_files, validation_run, typically, entry_before,
                 asterisk>>

NextBuild == Cleanup \/ Asterisk \/ WordForms

SpecBuild == InitBuild /\ [][NextBuild]_vars

RECURSIVE IsSubsequence(_, _)
\* the characters of text are characters of source, in their order
IsSubsequence(text, source) ==
  IF text = <<>> THEN TRUE
  ELSE IF source = <<>> THEN FALSE
  ELSE IF text[1] = source[1] THEN IsSubsequence(Tail(text), Tail(source))
  ELSE IsSubsequence(text, Tail(source))

\* a run of a step's result is the run of a unit the step was given: that
\* run without some of its characters, or with "into" for its first "in"
Stems(r, source) ==
  IsSubsequence(r, source) \/ r = strip(replace(source, W.in, W.in_into, 1))

\* every position of the result pairs a tag with the run of one unit given,
\* of that tag (an asterisk may have been a constant or a variable)
SameUnits(result, given) ==
  \A i \in 1..Len(result.alt) :
    \E k \in 1..Len(given) :
       /\ \/ result.alt[i] = given[k].a
          \/ result.alt[i] = "asterisk" /\ given[k].a \in {"constant", "variable"}
       /\ i <= Len(result.runs)
       /\ Stems(result.runs[i], given[k].r)

\* the bold runs of the paragraph, as verbs
BoldUnits ==
  [k \in 1..Len(SelectSeq(typically, LAMBDA r : r.bold)) |->
     [a |-> "verb", r |-> SelectSeq(typically, LAMBDA r : r.bold)[k].text, i |-> k]]

\* position i of word_forms is "NA" for a variable, and else holds for each
\* word of run i a list of forms with that word
FormsOfRuns(entry) ==
  /\ Len(entry.word_forms) = Len(entry.runs)
  /\ \A i \in 1..Len(entry.word_forms) :
       IF entry.alt[i] = "variable" THEN entry.word_forms[i] = NA
       ELSE /\ entry.word_forms[i].list
            /\ Len(entry.word_forms[i].v) = Len(split(entry.runs[i]))
            /\ \A j \in 1..Len(split(entry.runs[i])) :
                 In(split(entry.runs[i])[j], entry.word_forms[i].v[j])

\* C27: every build step keeps the lists of an entry aligned: after cleanup,
\* after asterisk_verbs, after fix_into and after the word forms are
\* generated, alt and runs (and word_forms, once there) have the same length
\* and position i of each describes one and the same unit of the entry
C27_IndexAligned ==
  /\ pc = "tidied" =>
       /\ Len(built[1].alt) = Len(built[1].runs)
       /\ SameUnits(built[1], pairs_of(entry_before.alt, entry_before.runs))
  /\ pc = "asterisked" /\ asterisk # None =>
       /\ Len(asterisk.alt) = Len(asterisk.runs)
       /\ SameUnits(asterisk, BoldUnits \o pairs_of(entry_before.alt, entry_before.runs))
       /\ \A e \in 1..Len(built) :
            /\ Len(built[e].alt) = Len(built[e].runs)
            /\ SameUnits(built[e], pairs_of(asterisk.alt, asterisk.runs))
  /\ pc = "formed" =>
       \A e \in 1..Len(built) :
         /\ Len(built[e].alt) = Len(built[e].runs)
         /\ FormsOfRuns(built[e])

====
